---- MODULE Spec2Model ----
(***************************************************************************)
(* Unified document ingestion and storage service of kluisz-flow.          *)
(*                                                                         *)
(* The model covers server/fileStorageService.ts (LocalFileStorageService  *)
(* and FileStorageService) and the upload and serving routes of            *)
(* server/routes.ts.  Strings are sequences of tokens: the tokens "/",     *)
(* ".", "-" and "?" are the characters the code and the URLs split on,     *)
(* every other token is an opaque run of characters holding none of them. *)
(* A buffer is the sequence of the lengths of the chunks it was built      *)
(* from.                                                                   *)
(* The upload directory is a small file system: a function from resolved   *)
(* paths to file contents, metadata.json among them.                       *)
(***************************************************************************)
EXTENDS Integers, Sequences, FiniteSets, TLC

VARIABLES
    fs,             \* files on disk: resolved path -> content
    now,            \* the wall clock read by new Date()
    nextUuid,       \* number of randomUUID() calls so far
    objectStorage,  \* FileStorageService.objectStorage is non-null
    up,             \* local upload requests (PUT /api/files/local-upload/:fileId)
    rc,             \* remote completion requests (POST /api/files/complete-upload)
    overlapped,     \* history: some request arrived while another was in flight
    tg,             \* upload target requests (POST /api/files/upload)
    served,         \* the last answer of serveFile
    listed,         \* the last answer of GET /api/files
    uploadContext,  \* the browser's window.__uploadContext.useObjectStorage
    cl,             \* the browser's uploads, one per upload target request
    apiKeys,        \* AIProviderService.apiKeys: provider -> API key
    selectedProvider, \* AIProviderService.selectedProvider
    aiResponse      \* the last answer of an /api/ai-providers route

aiVars == <<apiKeys, selectedProvider, aiResponse>>

vars == <<fs, now, nextUuid, objectStorage, up, rc, overlapped, tg, served, listed, uploadContext, cl, aiVars>>

----------------------------------------------------------------------------
(* Bounds of the model *)

MaxRequests == 3
MaxChunks == 2

Uploads == {1, 2}
Completions == {1, 2}
Targets == {1, 2}

----------------------------------------------------------------------------
(* Strings and paths *)

RECURSIVE split(_, _)
split(s, sep) ==
    IF s = <<>> THEN << <<>> >>
    ELSE LET rest == split(Tail(s), sep)
         IN  IF Head(s) = sep
             THEN << <<>> >> \o rest
             ELSE << <<Head(s)>> \o Head(rest) >> \o Tail(rest)

pop(parts) == parts[Len(parts)]

DotDot == <<".", ".">>
Dot == <<".">>

\* path.normalize over the segments of an absolute path
RECURSIVE normalize(_, _)
normalize(stack, segs) ==
    IF segs = <<>> THEN stack
    ELSE LET s == Head(segs)
         IN  IF s = <<>> \/ s = Dot THEN normalize(stack, Tail(segs))
             ELSE IF s = DotDot
                  THEN normalize(IF stack = <<>> THEN <<>>
                                 ELSE SubSeq(stack, 1, Len(stack) - 1), Tail(segs))
                  ELSE normalize(Append(stack, s), Tail(segs))

\* path.join(dir, rel): dir is a resolved directory, rel a string
join(dir, rel) == normalize(dir, split(rel, "/"))

cwd == << <<"cwd">> >>
uploadDir == join(cwd, <<"uploads">>)
metadataFile == join(uploadDir, <<"metadata", ".", "json">>)

\* the directories that exist: the root, process.cwd() and the upload directory
Dirs == {<<>>, cwd, uploadDir}

----------------------------------------------------------------------------
(* File contents *)

NoFile == [id |-> <<>>, name |-> <<>>, size |-> 0, path |-> <<>>,
           uploadedAt |-> 0, mimeType |-> ""]

RECURSIVE SumLen(_)
SumLen(chunks) == IF chunks = <<>> THEN 0 ELSE Head(chunks) + SumLen(Tail(chunks))

RECURSIVE Reverse(_)
Reverse(s) == IF s = <<>> THEN <<>> ELSE Append(Reverse(Tail(s)), Head(s))

\* mutant: the chunks are concatenated last first
BufferConcat_Reversed(chunks) == Reverse(chunks)

\* Buffer.concat(chunks): the bytes of the chunks in order
BufferConcat(chunks) == chunks
BufferLength(buffer) == SumLen(buffer)

Bytes(buffer) == [kind |-> "bytes", chunks |-> buffer, records |-> <<>>]
\* JSON.stringify(metadata, null, 2): the text of an array of records
JSONstringify(metadata) == [kind |-> "json", chunks |-> <<>>, records |-> metadata]
\* JSON.parse(data): the uploaded bytes of the model are never JSON text
JSONparseThrows(data) == data.kind # "json"
JSONparse(data) == data.records

existsSync(f, path) == path \in DOMAIN f

\* writeFileSync throws when the parent directory is missing (ENOENT) or the
\* path is a directory (EISDIR)
writeThrows(path) ==
    \/ path \in Dirs
    \/ path = <<>>
    \/ SubSeq(path, 1, Len(path) - 1) \notin Dirs

writeFileSync(f, path, content) ==
    [p \in DOMAIN f \cup {path} |-> IF p = path THEN content ELSE f[p]]

----------------------------------------------------------------------------
(* LocalFileStorageService *)

getMetadata(f) ==
    IF existsSync(f, metadataFile) /\ ~JSONparseThrows(f[metadataFile])
    THEN JSONparse(f[metadataFile])
    ELSE <<>>

saveMetadata(f, metadata) == writeFileSync(f, metadataFile, JSONstringify(metadata))

\* mutant: the size is taken from chunks.length, not from the bytes
LocalFileInfo_ChunkCount(fileId, buffer, fileName, mimeType, t) ==
    [id |-> fileId, name |-> fileName, size |-> Len(buffer),
     path |-> <<"/", "uploads", "/">> \o fileId \o <<"-">> \o fileName,
     uploadedAt |-> t, mimeType |-> mimeType]

LocalFileInfo(fileId, buffer, fileName, mimeType, t) ==
    [id |-> fileId, name |-> fileName, size |-> BufferLength(buffer),
     path |-> <<"/", "uploads", "/">> \o fileId \o <<"-">> \o fileName,
     uploadedAt |-> t, mimeType |-> mimeType]

LedgerAppend(metadata, fileInfo) == Append(metadata, fileInfo)

\* mutant: getMetadata has no try/catch, a ledger that does not parse makes
\* saveUploadedFile throw after the bytes were written
saveUploadedFile_ParseErrorPropagates(f, fileId, buffer, fileName, mimeType, t) ==
    LET filePath == join(uploadDir, fileId \o <<"-">> \o fileName)
        fileInfo == LocalFileInfo(fileId, buffer, fileName, mimeType, t)
    IN  IF writeThrows(filePath)
        THEN [threw |-> TRUE, fs |-> f, fileInfo |-> NoFile]
        ELSE LET f1 == writeFileSync(f, filePath, Bytes(buffer))
                 metadata == LedgerAppend(getMetadata(f1), fileInfo)
             IN  IF existsSync(f1, metadataFile) /\ JSONparseThrows(f1[metadataFile])
                 THEN [threw |-> TRUE, fs |-> f1, fileInfo |-> NoFile]
                 ELSE [threw |-> FALSE, fs |-> saveMetadata(f1, metadata),
                       fileInfo |-> fileInfo]

\* mutant: the record is pushed and the ledger saved before the bytes are written
saveUploadedFile_LedgerFirst(f, fileId, buffer, fileName, mimeType, t) ==
    LET filePath == join(uploadDir, fileId \o <<"-">> \o fileName)
        fileInfo == LocalFileInfo(fileId, buffer, fileName, mimeType, t)
        f1 == saveMetadata(f, LedgerAppend(getMetadata(f), fileInfo))
    IN  IF writeThrows(filePath)
        THEN [threw |-> TRUE, fs |-> f1, fileInfo |-> NoFile]
        ELSE [threw |-> FALSE, fs |-> writeFileSync(f1, filePath, Bytes(buffer)),
              fileInfo |-> fileInfo]

\* result of saveUploadedFile: threw, the file system after it, the record
saveUploadedFile(f, fileId, buffer, fileName, mimeType, t) ==
    LET filePath == join(uploadDir, fileId \o <<"-">> \o fileName)
        fileInfo == LocalFileInfo(fileId, buffer, fileName, mimeType, t)
    IN  IF writeThrows(filePath)
        THEN [threw |-> TRUE, fs |-> f, fileInfo |-> NoFile]
        ELSE LET f1 == writeFileSync(f, filePath, Bytes(buffer))
                 metadata == LedgerAppend(getMetadata(f1), fileInfo)
             IN  [threw |-> FALSE, fs |-> saveMetadata(f1, metadata),
                  fileInfo |-> fileInfo]

toLowerCase(tok) ==
    CASE tok = "PDF" -> "pdf"
      [] tok = "TXT" -> "txt"
      [] tok = "DOC" -> "doc"
      [] tok = "DOCX" -> "docx"
      [] OTHER -> tok

\* no file was asked for yet
NoResponse ==
    [filePath |-> <<>>, found |-> FALSE, buffer |-> Bytes(<<>>), contentType |-> "",
     read |-> <<>>]          \* history: the resolved path readFileSync was given

startsWith(s, prefix) ==
    Len(s) >= Len(prefix) /\ SubSeq(s, 1, Len(prefix)) = prefix

\* s.replace(pattern, replacement): the first occurrence only
RECURSIVE replace(_, _, _)
replace(s, pattern, replacement) ==
    IF Len(s) < Len(pattern) THEN s
    ELSE IF SubSeq(s, 1, Len(pattern)) = pattern
         THEN replacement \o SubSeq(s, Len(pattern) + 1, Len(s))
         ELSE <<Head(s)>> \o replace(Tail(s), pattern, replacement)

\* the string of a resolved path
RECURSIVE PathString(_)
PathString(path) ==
    IF path = <<>> THEN <<>> ELSE <<"/">> \o Head(path) \o PathString(Tail(path))

LowerCase(s) == [i \in 1..Len(s) |-> toLowerCase(s[i])]

getMimeType(filePath) ==
    LET ext == pop(split(LowerCase(filePath), "."))
    IN  CASE ext = <<"pdf">> -> "application/pdf"
          [] ext = <<"docx">> ->
               "application/vnd.openxmlformats-officedocument.wordprocessingml.document"
          [] ext = <<"doc">> -> "application/msword"
          [] ext = <<"txt">> -> "text/plain"
          [] OTHER -> "application/octet-stream"

\* LocalFileStorageService.generateUploadURL for the id randomUUID() returned
LocalGenerateUploadURL(fileId) ==
    <<"http:", "/", "/", "localhost:3001", "/", "api", "/", "files", "/",
      "local-upload", "/">> \o fileId

\* LocalFileStorageService.serveFile; found is FALSE for the null result.  A
\* fullPath that is a directory exists, readFileSync throws on it and the
\* catch returns null: the same answer as for a path that does not exist.
LocalServeFile(f, filePath) ==
    LET fullPath == join(uploadDir, replace(filePath, <<"/", "uploads", "/">>, <<>>))
    IN  IF existsSync(f, fullPath)
        THEN [filePath |-> filePath, found |-> TRUE, buffer |-> f[fullPath],
              contentType |-> getMimeType(PathString(fullPath)), read |-> fullPath]
        ELSE [NoResponse EXCEPT !.filePath = filePath]

----------------------------------------------------------------------------
(* FileStorageService *)

extractObjectKeyFromUrl(url) == pop(split(url, "/"))

Uuid(n) == <<"uuid" \o ToString(n)>>

detectMimeTypeFromFileName(fileName) ==
    LET ext == pop(split(fileName, "."))
        extension == IF Len(ext) = 1 THEN toLowerCase(ext[1]) ELSE ""
    IN  CASE extension = "pdf" -> "application/pdf"
          [] extension = "doc" -> "application/msword"
          [] extension = "docx" ->
               "application/vnd.openxmlformats-officedocument.wordprocessingml.document"
          [] extension = "txt" -> "text/plain"
          [] OTHER -> "application/octet-stream"

\* ObjectStorageService.getObjectEntityUploadURL returns a pre-signed URL
\* of a new object of the private directory
getObjectEntityUploadURL(objectId) ==
    <<"https:", "/", "/", "gcs", "/", "private", "/", "uploads", "/">> \o objectId

\* ObjectStorageService.trySetObjectEntityAclPolicy returns the object path
\* of the uploaded entity: the path part of the upload URL under /objects
ObjectPath(url) ==
    <<"/", "objects">> \o (IF Len(url) > 4 THEN SubSeq(url, 5, Len(url)) ELSE <<>>)

\* the record completeUpload builds once the access policy is set
RemoteFileInfo(fileUrl, fileName, fileSize, objectPath, uuid, t) ==
    LET objectKey == extractObjectKeyFromUrl(fileUrl)
        fileId == IF objectKey # <<>> THEN objectKey ELSE uuid
    IN  [id |-> fileId, name |-> fileName, size |-> fileSize,
         path |-> objectPath, uploadedAt |-> t,
         mimeType |-> detectMimeTypeFromFileName(fileName)]

\* metadata.findIndex(file => file.id === id), 0 when there is none
findIndex(metadata, id) ==
    IF \E i \in 1..Len(metadata) : metadata[i].id = id
    THEN CHOOSE i \in 1..Len(metadata) :
            /\ metadata[i].id = id
            /\ \A j \in 1..(i - 1) : metadata[j].id # id
    ELSE 0

MergeRecord(metadata, fileInfo) ==
    LET existingIndex == findIndex(metadata, fileInfo.id)
    IN  IF existingIndex >= 1
        THEN [metadata EXCEPT ![existingIndex] = fileInfo]
        ELSE Append(metadata, fileInfo)

persistObjectStorageMetadata(f, fileInfo) ==
    saveMetadata(f, MergeRecord(getMetadata(f), fileInfo))

\* FileStorageService.serveFile: only the paths of the local backend are served
serveFile(f, filePath) ==
    IF startsWith(filePath, <<"/", "uploads", "/">>)
    THEN LocalServeFile(f, filePath)
    ELSE [NoResponse EXCEPT !.filePath = filePath]

getAllFiles == getMetadata(fs)

----------------------------------------------------------------------------
(* Requests *)

maxSize == 50 * 1024 * 1024

\* mutant: the default type of a request without content-type is accepted
allowedTypes_WithOctetStream ==
    {"application/pdf", "application/msword",
     "application/vnd.openxmlformats-officedocument.wordprocessingml.document",
     "text/plain", "application/octet-stream"}

allowedTypes ==
    {"application/pdf", "application/msword",
     "application/vnd.openxmlformats-officedocument.wordprocessingml.document",
     "text/plain"}

\* a local upload request before it arrives
NoUpload ==
    [started |-> FALSE, fileId |-> <<>>, contentType |-> "", fileName |-> <<>>,
     fileSize |-> 0,
     flowing |-> FALSE,      \* req is in flowing mode (a 'data' listener was attached)
     listeners |-> FALSE,    \* the handlers of 'data', 'end' and 'error' are attached
     stream |-> "open",      \* req: open, ended or errored
     delivered |-> 0,        \* number of 'data' events req has emitted
     totalSize |-> 0, chunks |-> <<>>, streamEnded |-> FALSE,
     status |-> 0,           \* the response sent, 0 while res.headersSent is false
     fileInfo |-> NoFile]

\* a remote completion request before it arrives
NoCompletion ==
    [pc |-> "idle", fileUrl |-> <<>>, fileName |-> <<>>, fileSize |-> 0,
     useObjectStorage |-> FALSE, status |-> 0, fileInfo |-> NoFile]

\* selectedProvider before any provider was selected
Null == "null"

\* no /api/ai-providers route was called yet
NoAiResponse == [route |-> "", provider |-> "", status |-> 0]

\* an upload of the browser before handleGetUploadParameters ran for it
NoClientUpload ==
    [pc |-> "idle",
     posted |-> FALSE]       \* handleUploadComplete posted /api/files/complete-upload

\* an upload target request before it arrives
NoTarget ==
    [pc |-> "idle", uploadURL |-> <<>>, useObjectStorage |-> FALSE,
     fellBack |-> FALSE,     \* history: getObjectEntityUploadURL threw
     status |-> 0]

Started == Cardinality({r \in Uploads : up[r].started})
             + Cardinality({q \in Completions : rc[q].pc # "idle"})
             + Cardinality({t \in Targets : tg[t].pc # "idle"})

\* the requests that arrived and were not answered yet
InFlight ==
    {<<"up", r>> : r \in {r0 \in Uploads : up[r0].started /\ up[r0].status = 0}}
      \cup {<<"rc", q>> : q \in {q0 \in Completions : rc[q0].pc = "acl"}}

Init ==
    /\ fs = << >>
    /\ now = 0
    /\ nextUuid = 0
    /\ objectStorage \in BOOLEAN
    /\ up = [r \in Uploads |-> NoUpload]
    /\ rc = [q \in Completions |-> NoCompletion]
    /\ overlapped = FALSE
    /\ tg = [t \in Targets |-> NoTarget]
    /\ served = NoResponse
    /\ listed = << >>
    /\ uploadContext = FALSE
    /\ cl = [t \in Targets |-> NoClientUpload]
    /\ apiKeys = << >>
    /\ selectedProvider = Null
    /\ aiResponse = NoAiResponse

----------------------------------------------------------------------------
(* POST /api/files/upload *)

\* mutant: issuing a local target reserves an empty file under the new id
UploadUrlRequest_ReservesFile(t) ==
    /\ tg[t].pc = "idle"
    /\ \A t0 \in Targets : t0 < t => tg[t0].pc # "idle"
    /\ Started < MaxRequests
    /\ IF objectStorage
       THEN /\ tg' = [tg EXCEPT ![t] = [NoTarget EXCEPT !.pc = "provider"]]
            /\ UNCHANGED <<nextUuid, fs>>
       ELSE /\ tg' = [tg EXCEPT ![t] =
                    [NoTarget EXCEPT !.pc = "done", !.status = 200,
                        !.uploadURL = LocalGenerateUploadURL(Uuid(nextUuid + 1)),
                        !.useObjectStorage = FALSE]]
            /\ nextUuid' = nextUuid + 1
            /\ fs' = writeFileSync(fs, join(uploadDir, Uuid(nextUuid + 1)), Bytes(<<>>))
    /\ UNCHANGED <<now, objectStorage, up, rc, overlapped, served, listed, uploadContext, cl, aiVars>>

\* the request arrives: generateUploadURL up to its await of the provider, or
\* all of it when object storage is not configured
UploadUrlRequest(t) ==
    /\ tg[t].pc = "idle"
    /\ \A t0 \in Targets : t0 < t => tg[t0].pc # "idle"
    /\ Started < MaxRequests
    /\ IF objectStorage
       THEN /\ tg' = [tg EXCEPT ![t] = [NoTarget EXCEPT !.pc = "provider"]]
            /\ UNCHANGED nextUuid
       ELSE /\ tg' = [tg EXCEPT ![t] =
                    [NoTarget EXCEPT !.pc = "done", !.status = 200,
                        !.uploadURL = LocalGenerateUploadURL(Uuid(nextUuid + 1)),
                        !.useObjectStorage = FALSE]]
            /\ nextUuid' = nextUuid + 1
    /\ UNCHANGED <<fs, now, objectStorage, up, rc, overlapped, served, listed, uploadContext, cl, aiVars>>

\* getObjectEntityUploadURL resolved
ProviderResolved(t) ==
    /\ tg[t].pc = "provider"
    /\ tg' = [tg EXCEPT ![t] =
                [tg[t] EXCEPT !.pc = "done", !.status = 200,
                    !.uploadURL = getObjectEntityUploadURL(Uuid(nextUuid + 1)),
                    !.useObjectStorage = TRUE]]
    /\ nextUuid' = nextUuid + 1
    /\ UNCHANGED <<fs, now, objectStorage, up, rc, overlapped, served, listed, uploadContext, cl, aiVars>>

\* mutant: the failure of the provider is answered 500
ProviderRejected_NoFallback(t) ==
    /\ tg[t].pc = "provider"
    /\ tg' = [tg EXCEPT ![t] =
                [tg[t] EXCEPT !.pc = "done", !.status = 500, !.fellBack = TRUE]]
    /\ UNCHANGED <<fs, now, nextUuid, objectStorage, up, rc, overlapped, served, listed, uploadContext, cl, aiVars>>

\* getObjectEntityUploadURL rejected: the catch logs, the local target is returned
ProviderRejected(t) ==
    /\ tg[t].pc = "provider"
    /\ tg' = [tg EXCEPT ![t] =
                [tg[t] EXCEPT !.pc = "done", !.status = 200, !.fellBack = TRUE,
                    !.uploadURL = LocalGenerateUploadURL(Uuid(nextUuid + 1)),
                    !.useObjectStorage = FALSE]]
    /\ nextUuid' = nextUuid + 1
    /\ UNCHANGED <<fs, now, objectStorage, up, rc, overlapped, served, listed, uploadContext, cl, aiVars>>

----------------------------------------------------------------------------
(* PUT /api/files/local-upload/:fileId *)

\* mutant: the declared size is not checked
LocalUpload_NoSizeCheck(r, fileId, contentType, fileName, fileSize) ==
    /\ ~up[r].started
    /\ \A r0 \in Uploads : r0 < r => up[r0].started
    /\ Started < MaxRequests
    /\ LET req == [NoUpload EXCEPT !.started = TRUE, !.fileId = fileId,
                       !.contentType = contentType, !.fileName = fileName,
                       !.fileSize = fileSize]
       IN  up' = [up EXCEPT ![r] =
                IF contentType \notin allowedTypes
                THEN [req EXCEPT !.status = 400]
                ELSE [req EXCEPT !.flowing = TRUE, !.listeners = TRUE]]
    /\ overlapped' = (overlapped \/ InFlight # {})
    /\ UNCHANGED <<fs, now, nextUuid, objectStorage, rc, tg, served, listed, uploadContext, cl, aiVars>>

\* mutant: the declared size is checked before the content type
LocalUpload_SizeCheckFirst(r, fileId, contentType, fileName, fileSize) ==
    /\ ~up[r].started
    /\ \A r0 \in Uploads : r0 < r => up[r0].started
    /\ Started < MaxRequests
    /\ LET req == [NoUpload EXCEPT !.started = TRUE, !.fileId = fileId,
                       !.contentType = contentType, !.fileName = fileName,
                       !.fileSize = fileSize]
       IN  up' = [up EXCEPT ![r] =
                IF fileSize > maxSize
                THEN [req EXCEPT !.status = 413]
                ELSE IF contentType \notin allowedTypes
                     THEN [req EXCEPT !.status = 400]
                     ELSE [req EXCEPT !.flowing = TRUE, !.listeners = TRUE]]
    /\ overlapped' = (overlapped \/ InFlight # {})
    /\ UNCHANGED <<fs, now, nextUuid, objectStorage, rc, tg, served, listed, uploadContext, cl, aiVars>>

\* the request arrives: header extraction, type check, size check, listeners
LocalUpload(r, fileId, contentType, fileName, fileSize) ==
    /\ ~up[r].started
    /\ \A r0 \in Uploads : r0 < r => up[r0].started
    /\ Started < MaxRequests
    /\ LET req == [NoUpload EXCEPT !.started = TRUE, !.fileId = fileId,
                       !.contentType = contentType, !.fileName = fileName,
                       !.fileSize = fileSize]
       IN  up' = [up EXCEPT ![r] =
                IF contentType \notin allowedTypes
                THEN [req EXCEPT !.status = 400]
                ELSE IF fileSize > maxSize
                     THEN [req EXCEPT !.status = 413]
                     ELSE [req EXCEPT !.flowing = TRUE, !.listeners = TRUE]]
    /\ overlapped' = (overlapped \/ InFlight # {})
    /\ UNCHANGED <<fs, now, nextUuid, objectStorage, rc, tg, served, listed, uploadContext, cl, aiVars>>

\* mutant: totalSize is one counter shared by all requests
OnData_SharedTotal(r, chunkLength) ==
    /\ up[r].flowing /\ up[r].stream = "open"
    /\ up[r].delivered < MaxChunks
    /\ LET u == [up[r] EXCEPT !.delivered = up[r].delivered + 1]
           shared == SumLen([r0 \in 1..Cardinality(Uploads) |-> up[r0].totalSize])
           total == shared + chunkLength
       IN  up' = [up EXCEPT ![r] =
                IF ~u.listeners \/ u.streamEnded THEN u
                ELSE IF total > maxSize
                     THEN [u EXCEPT !.totalSize = total, !.streamEnded = TRUE,
                                    !.listeners = FALSE, !.status = 413]
                     ELSE [u EXCEPT !.totalSize = total,
                                    !.chunks = Append(u.chunks, chunkLength)]]
    /\ UNCHANGED <<fs, now, nextUuid, objectStorage, rc, overlapped, tg, served, listed, uploadContext, cl, aiVars>>

\* mutant: on oversize the handler answers 413 but keeps its listeners and
\* does not set streamEnded
OnData_NoAbort(r, chunkLength) ==
    /\ up[r].flowing /\ up[r].stream = "open"
    /\ up[r].delivered < MaxChunks
    /\ LET u == [up[r] EXCEPT !.delivered = up[r].delivered + 1]
           total == u.totalSize + chunkLength
       IN  up' = [up EXCEPT ![r] =
                IF ~u.listeners \/ u.streamEnded THEN u
                ELSE IF total > maxSize
                     THEN [u EXCEPT !.totalSize = total, !.status = 413]
                     ELSE [u EXCEPT !.totalSize = total,
                                    !.chunks = Append(u.chunks, chunkLength)]]
    /\ UNCHANGED <<fs, now, nextUuid, objectStorage, rc, overlapped, tg, served, listed, uploadContext, cl, aiVars>>

\* mutant: the chunk is pushed before the running total is checked
OnData_PushBeforeCheck(r, chunkLength) ==
    /\ up[r].flowing /\ up[r].stream = "open"
    /\ up[r].delivered < MaxChunks
    /\ LET u == [up[r] EXCEPT !.delivered = up[r].delivered + 1]
           total == u.totalSize + chunkLength
       IN  up' = [up EXCEPT ![r] =
                IF ~u.listeners \/ u.streamEnded THEN u
                ELSE IF total > maxSize
                     THEN [u EXCEPT !.totalSize = total, !.streamEnded = TRUE,
                                    !.listeners = FALSE, !.status = 413,
                                    !.chunks = Append(u.chunks, chunkLength)]
                     ELSE [u EXCEPT !.totalSize = total,
                                    !.chunks = Append(u.chunks, chunkLength)]]
    /\ UNCHANGED <<fs, now, nextUuid, objectStorage, rc, overlapped, tg, served, listed, uploadContext, cl, aiVars>>

\* req emits 'data' with a chunk of chunkLength bytes; the handler of
\* req.on('data') runs when it is still attached
OnData(r, chunkLength) ==
    /\ up[r].flowing /\ up[r].stream = "open"
    /\ up[r].delivered < MaxChunks
    /\ LET u == [up[r] EXCEPT !.delivered = up[r].delivered + 1]
           total == u.totalSize + chunkLength
       IN  up' = [up EXCEPT ![r] =
                IF ~u.listeners \/ u.streamEnded THEN u
                ELSE IF total > maxSize
                     THEN [u EXCEPT !.totalSize = total, !.streamEnded = TRUE,
                                    !.listeners = FALSE, !.status = 413]
                     ELSE [u EXCEPT !.totalSize = total,
                                    !.chunks = Append(u.chunks, chunkLength)]]
    /\ UNCHANGED <<fs, now, nextUuid, objectStorage, rc, overlapped, tg, served, listed, uploadContext, cl, aiVars>>

\* mutant: an empty buffer is saved like any other
OnEnd_NoEmptyCheck(r) ==
    /\ up[r].flowing /\ up[r].stream = "open"
    /\ LET u == [up[r] EXCEPT !.stream = "ended"]
           buffer == BufferConcat(u.chunks)
           saved == saveUploadedFile(fs, u.fileId, buffer, u.fileName,
                                     u.contentType, now + 1)
       IN  IF ~u.listeners \/ u.streamEnded
           THEN /\ up' = [up EXCEPT ![r] = u]
                /\ UNCHANGED <<fs, now>>
           ELSE IF saved.threw
           THEN /\ up' = [up EXCEPT ![r] =
                        [u EXCEPT !.status = IF u.status = 0 THEN 500 ELSE u.status]]
                /\ fs' = saved.fs
                /\ UNCHANGED now
           ELSE /\ up' = [up EXCEPT ![r] =
                        [u EXCEPT !.status = 200, !.fileInfo = saved.fileInfo]]
                /\ fs' = saved.fs
                /\ now' = now + 1
    /\ UNCHANGED <<nextUuid, objectStorage, rc, overlapped, tg, served, listed, uploadContext, cl, aiVars>>

\* mutant: the end handler is still attached after an abort and does not
\* look at streamEnded
OnEnd_RunsAfterAbort(r) ==
    /\ up[r].flowing /\ up[r].stream = "open"
    /\ LET u == [up[r] EXCEPT !.stream = "ended"]
           buffer == BufferConcat(u.chunks)
           saved == saveUploadedFile(fs, u.fileId, buffer, u.fileName,
                                     u.contentType, now + 1)
       IN  IF BufferLength(buffer) = 0
           THEN /\ up' = [up EXCEPT ![r] = [u EXCEPT !.status = 400]]
                /\ UNCHANGED <<fs, now>>
           ELSE IF saved.threw
           THEN /\ up' = [up EXCEPT ![r] =
                        [u EXCEPT !.status = IF u.status = 0 THEN 500 ELSE u.status]]
                /\ fs' = saved.fs
                /\ UNCHANGED now
           ELSE /\ up' = [up EXCEPT ![r] =
                        [u EXCEPT !.status = 200, !.fileInfo = saved.fileInfo]]
                /\ fs' = saved.fs
                /\ now' = now + 1
    /\ UNCHANGED <<nextUuid, objectStorage, rc, overlapped, tg, served, listed, uploadContext, cl, aiVars>>

\* req.on('end'): the stream ended; the handler runs when it is still attached
OnEnd(r) ==
    /\ up[r].flowing /\ up[r].stream = "open"
    /\ LET u == [up[r] EXCEPT !.stream = "ended"]
           buffer == BufferConcat(u.chunks)
           saved == saveUploadedFile(fs, u.fileId, buffer, u.fileName,
                                     u.contentType, now + 1)
       IN  IF ~u.listeners \/ u.streamEnded
           THEN /\ up' = [up EXCEPT ![r] = u]
                /\ UNCHANGED <<fs, now>>
           ELSE IF BufferLength(buffer) = 0
           THEN /\ up' = [up EXCEPT ![r] = [u EXCEPT !.status = 400]]
                /\ UNCHANGED <<fs, now>>
           ELSE IF saved.threw
           THEN /\ up' = [up EXCEPT ![r] =
                        [u EXCEPT !.status = IF u.status = 0 THEN 500 ELSE u.status]]
                /\ fs' = saved.fs
                /\ UNCHANGED now
           ELSE /\ up' = [up EXCEPT ![r] =
                        [u EXCEPT !.status = 200, !.fileInfo = saved.fileInfo]]
                /\ fs' = saved.fs
                /\ now' = now + 1
    /\ UNCHANGED <<nextUuid, objectStorage, rc, overlapped, tg, served, listed, uploadContext, cl, aiVars>>

\* mutant: the handler saves the chunks it has before it answers
OnError_SavesPartial(r) ==
    /\ up[r].flowing /\ up[r].listeners /\ up[r].stream = "open"
    /\ up' = [up EXCEPT ![r] =
                [up[r] EXCEPT !.stream = "errored",
                              !.status = IF up[r].status = 0 THEN 500 ELSE up[r].status]]
    /\ fs' = saveUploadedFile(fs, up[r].fileId, BufferConcat(up[r].chunks),
                              up[r].fileName, up[r].contentType, now).fs
    /\ UNCHANGED <<now, nextUuid, objectStorage, rc, overlapped, tg, served, listed, uploadContext, cl, aiVars>>

\* req.on('error'): the stream failed before its end
OnError(r) ==
    /\ up[r].flowing /\ up[r].listeners /\ up[r].stream = "open"
    /\ up' = [up EXCEPT ![r] =
                [up[r] EXCEPT !.stream = "errored",
                              !.status = IF up[r].status = 0 THEN 500 ELSE up[r].status]]
    /\ UNCHANGED <<fs, now, nextUuid, objectStorage, rc, overlapped, tg, served, listed, uploadContext, cl, aiVars>>

----------------------------------------------------------------------------
(* POST /api/files/complete-upload *)

\* mutant: the route does not look at fileSize
CompleteUploadRequest_NoSizeCheck(q, fileUrl, fileName, fileSize, useObjectStorage) ==
    /\ rc[q].pc = "idle"
    /\ \A q0 \in Completions : q0 < q => rc[q0].pc # "idle"
    /\ Started < MaxRequests
    /\ LET req == [NoCompletion EXCEPT !.fileUrl = fileUrl, !.fileName = fileName,
                       !.fileSize = fileSize, !.useObjectStorage = useObjectStorage]
       IN  rc' = [rc EXCEPT ![q] =
                IF fileUrl = <<>> \/ fileName = <<>>
                THEN [req EXCEPT !.pc = "done", !.status = 400]
                ELSE IF useObjectStorage /\ objectStorage
                     THEN [req EXCEPT !.pc = "acl"]
                     ELSE [req EXCEPT !.pc = "done", !.status = 500]]
    /\ overlapped' = (overlapped \/ InFlight # {})
    /\ UNCHANGED <<fs, now, nextUuid, objectStorage, up, tg, served, listed, uploadContext, cl, aiVars>>

\* mutant: the route takes the remote path whenever object storage is
\* configured, whatever the request's useObjectStorage says
CompleteUploadRequest_IgnoresFlag(q, fileUrl, fileName, fileSize, useObjectStorage) ==
    /\ rc[q].pc = "idle"
    /\ \A q0 \in Completions : q0 < q => rc[q0].pc # "idle"
    /\ Started < MaxRequests
    /\ LET req == [NoCompletion EXCEPT !.fileUrl = fileUrl, !.fileName = fileName,
                       !.fileSize = fileSize, !.useObjectStorage = useObjectStorage]
       IN  rc' = [rc EXCEPT ![q] =
                IF fileUrl = <<>> \/ fileName = <<>>
                THEN [req EXCEPT !.pc = "done", !.status = 400]
                ELSE IF fileSize > maxSize
                     THEN [req EXCEPT !.pc = "done", !.status = 413]
                     ELSE IF objectStorage
                          THEN [req EXCEPT !.pc = "acl"]
                          ELSE [req EXCEPT !.pc = "done", !.status = 500]]
    /\ overlapped' = (overlapped \/ InFlight # {})
    /\ UNCHANGED <<fs, now, nextUuid, objectStorage, up, tg, served, listed, uploadContext, cl, aiVars>>

\* the request arrives: validation, then completeUpload up to its await
CompleteUploadRequest(q, fileUrl, fileName, fileSize, useObjectStorage) ==
    /\ rc[q].pc = "idle"
    /\ \A q0 \in Completions : q0 < q => rc[q0].pc # "idle"
    /\ Started < MaxRequests
    /\ LET req == [NoCompletion EXCEPT !.fileUrl = fileUrl, !.fileName = fileName,
                       !.fileSize = fileSize, !.useObjectStorage = useObjectStorage]
       IN  rc' = [rc EXCEPT ![q] =
                IF fileUrl = <<>> \/ fileName = <<>>
                THEN [req EXCEPT !.pc = "done", !.status = 400]
                ELSE IF fileSize > maxSize
                     THEN [req EXCEPT !.pc = "done", !.status = 413]
                     ELSE IF useObjectStorage /\ objectStorage
                          THEN [req EXCEPT !.pc = "acl"]
                          ELSE [req EXCEPT !.pc = "done", !.status = 500]]
    /\ overlapped' = (overlapped \/ InFlight # {})
    /\ UNCHANGED <<fs, now, nextUuid, objectStorage, up, tg, served, listed, uploadContext, cl, aiVars>>

\* trySetObjectEntityAclPolicy resolved: completeUpload builds and returns the
\* record, the route merges it into the ledger and answers.  Between the
\* return of completeUpload and the call of persistObjectStorageMetadata the
\* route only resumes from its await: no handler of another request runs there.
AclResolved(q) ==
    /\ rc[q].pc = "acl"
    /\ LET c == rc[q]
           fresh == extractObjectKeyFromUrl(c.fileUrl) = <<>>
           fileInfo == RemoteFileInfo(c.fileUrl, c.fileName, c.fileSize,
                                      ObjectPath(c.fileUrl), Uuid(nextUuid + 1), now + 1)
       IN  /\ rc' = [rc EXCEPT ![q] =
                    [c EXCEPT !.pc = "done", !.status = 200, !.fileInfo = fileInfo]]
           /\ fs' = IF c.useObjectStorage
                    THEN persistObjectStorageMetadata(fs, fileInfo)
                    ELSE fs
           /\ nextUuid' = IF fresh THEN nextUuid + 1 ELSE nextUuid
    /\ now' = now + 1
    /\ UNCHANGED <<objectStorage, up, overlapped, tg, served, listed, uploadContext, cl, aiVars>>

\* mutant: the failure of the access policy is answered 500 but the record is
\* merged into the ledger all the same
AclRejected_StillPersists(q) ==
    /\ rc[q].pc = "acl"
    /\ rc' = [rc EXCEPT ![q] = [rc[q] EXCEPT !.pc = "done", !.status = 500]]
    /\ fs' = persistObjectStorageMetadata(fs,
                RemoteFileInfo(rc[q].fileUrl, rc[q].fileName, rc[q].fileSize,
                               ObjectPath(rc[q].fileUrl), Uuid(nextUuid + 1), now))
    /\ UNCHANGED <<now, nextUuid, objectStorage, up, overlapped, tg, served, listed, uploadContext, cl, aiVars>>

\* trySetObjectEntityAclPolicy rejected: completeUpload rethrows, the route answers 500
AclRejected(q) ==
    /\ rc[q].pc = "acl"
    /\ rc' = [rc EXCEPT ![q] = [rc[q] EXCEPT !.pc = "done", !.status = 500]]
    /\ UNCHANGED <<fs, now, nextUuid, objectStorage, up, overlapped, tg, served, listed, uploadContext, cl, aiVars>>

----------------------------------------------------------------------------
(* GET /api/files *)

\* mutant: the answer also lists the uploads whose bytes are still arriving
ListRequest_ListsInFlight ==
    /\ listed' = getAllFiles \o
                    (IF \E r \in Uploads : up[r].flowing /\ up[r].stream = "open"
                     THEN LET r == CHOOSE r0 \in Uploads :
                                        up[r0].flowing /\ up[r0].stream = "open"
                          IN  <<LocalFileInfo(up[r].fileId, up[r].chunks, up[r].fileName,
                                              up[r].contentType, now)>>
                     ELSE <<>>)
    /\ UNCHANGED <<fs, now, nextUuid, objectStorage, up, rc, overlapped, tg,
                   served, uploadContext, cl, aiVars>>

\* getAllFiles() reads metadata.json synchronously when it is called; the
\* route answers with what it read
ListRequest ==
    /\ listed' = getAllFiles
    /\ UNCHANGED <<fs, now, nextUuid, objectStorage, up, rc, overlapped, tg,
                   served, uploadContext, cl, aiVars>>

----------------------------------------------------------------------------

(* GET /uploads/:fileName *)

\* serveFile(filePath) answers; the route calls it with /uploads/ followed by
\* the decoded fileName parameter and answers 404 when nothing was found
ServeRequest(filePath) ==
    /\ served' = serveFile(fs, filePath)
    /\ UNCHANGED <<fs, now, nextUuid, objectStorage, up, rc, overlapped, tg,
                   listed, uploadContext, cl, aiVars>>

----------------------------------------------------------------------------
(* The requests of the specifications *)

UrlA == <<"https:", "/", "/", "gcs", "/", "b1", "/", "k1">>
UrlB == <<"https:", "/", "/", "gcs", "/", "b2", "/", "k1">>
UrlC == <<"https:", "/", "/", "gcs", "/", "b1", "/", "k2">>

\* x-file-name values: a plain name, a name that resolves to metadata.json and
\* a name inside a directory that does not exist
PlainName == <<"a", ".", "txt">>
LedgerName == <<"x", "/", ".", ".", "/", "metadata", ".", "json">>
MissingDirName == <<"d", "/", "e", ".", "txt">>

LocalRequests ==
    {[fileId |-> <<"k1">>, contentType |-> "text/plain", fileName |-> PlainName,
      fileSize |-> 3],
     [fileId |-> <<"u1">>, contentType |-> "application/pdf", fileName |-> LedgerName,
      fileSize |-> 3],
     [fileId |-> <<"u1">>, contentType |-> "text/plain", fileName |-> MissingDirName,
      fileSize |-> 3]}

LocalChunkLengths == {3}

RemoteRequests ==
    {[fileUrl |-> UrlA, fileName |-> <<"r", ".", "pdf">>, fileSize |-> 5,
      useObjectStorage |-> TRUE],
     [fileUrl |-> UrlB, fileName |-> <<"s", ".", "TXT">>, fileSize |-> 7,
      useObjectStorage |-> TRUE],
     [fileUrl |-> UrlC, fileName |-> <<"r", ".", "pdf">>, fileSize |-> 5,
      useObjectStorage |-> TRUE],
     [fileUrl |-> UrlA, fileName |-> <<"r", ".", "pdf">>, fileSize |-> 5,
      useObjectStorage |-> FALSE]}

Next ==
    \/ \E r \in Uploads, req \in LocalRequests :
          LocalUpload(r, req.fileId, req.contentType, req.fileName, req.fileSize)
    \/ \E r \in Uploads, n \in LocalChunkLengths : OnData(r, n)
    \/ \E r \in Uploads : OnEnd(r)
    \/ \E r \in Uploads : OnError(r)
    \/ \E q \in Completions, req \in RemoteRequests :
          CompleteUploadRequest(q, req.fileUrl, req.fileName, req.fileSize,
                                req.useObjectStorage)
    \/ \E q \in Completions : AclResolved(q)
    \/ \E q \in Completions : AclRejected(q)

Spec == Init /\ [][Next]_vars

----------------------------------------------------------------------------
(* The streaming guard alone: local uploads over every content type, declared *)
(* sizes around maxSize and chunks whose running total reaches and passes it  *)

GuardTypes == allowedTypes \cup {"application/octet-stream", "image/png"}

GuardRequests ==
    {[fileId |-> <<"u1">>, contentType |-> t, fileName |-> PlainName, fileSize |-> 1] :
        t \in GuardTypes}
    \cup {[fileId |-> <<"u2">>, contentType |-> "text/plain", fileName |-> PlainName,
           fileSize |-> n] : n \in {0, maxSize, maxSize + 1}}
    \cup {[fileId |-> <<"u2">>, contentType |-> "image/png", fileName |-> PlainName,
           fileSize |-> maxSize + 1]}

GuardChunkLengths == {1, maxSize - 1, maxSize + 1}

NextGuard ==
    \/ \E r \in Uploads, req \in GuardRequests :
          LocalUpload(r, req.fileId, req.contentType, req.fileName, req.fileSize)
    \/ \E r \in Uploads, n \in GuardChunkLengths : OnData(r, n)
    \/ \E r \in Uploads : OnEnd(r)
    \/ \E r \in Uploads : OnError(r)

SpecGuard == Init /\ [][NextGuard]_vars

----------------------------------------------------------------------------
(* The local backend alone, under file names and locators with directory   *)
(* parts: process.cwd() holds the package.json of the application           *)

PackageJson == join(cwd, <<"package", ".", "json">>)

InitPaths ==
    /\ fs = (PackageJson :> Bytes(<<9>>))
    /\ now = 0
    /\ nextUuid = 0
    /\ objectStorage = FALSE
    /\ up = [r \in Uploads |-> NoUpload]
    /\ rc = [q \in Completions |-> NoCompletion]
    /\ overlapped = FALSE
    /\ tg = [t \in Targets |-> NoTarget]
    /\ served = NoResponse
    /\ listed = << >>
    /\ uploadContext = FALSE
    /\ cl = [t \in Targets |-> NoClientUpload]
    /\ apiKeys = << >>
    /\ selectedProvider = Null
    /\ aiResponse = NoAiResponse

NoExtName == <<"notes">>
ParentName == <<".", ".", "/", ".", ".", "/", "etc", "/", "passwd">>
EscapeName == <<"x", "/", ".", ".", "/", ".", ".", "/", "env", ".", "txt">>

PathRequests ==
    {[fileId |-> <<"u1">>, contentType |-> "text/plain", fileName |-> n, fileSize |-> 3] :
        n \in {PlainName, NoExtName, MissingDirName, ParentName, EscapeName}}
    \cup {[fileId |-> <<"u1">>, contentType |-> "application/pdf",
           fileName |-> LedgerName, fileSize |-> 3]}

PathChunkLengths == {3}

\* decoded values of the fileName parameter of GET /uploads/:fileName
FileNameParams ==
    {<<"u1", "-", "a", ".", "txt">>,
     <<"u1", "-", "b", ".", "txt">>,
     <<".", ".", "/", "package", ".", "json">>}

\* the locators asked for: the paths of the records of the ledger and the
\* paths the route builds
Locators ==
    {getAllFiles[i].path : i \in 1..Len(getAllFiles)}
      \cup {<<"/", "uploads", "/">> \o n : n \in FileNameParams}

NextPaths ==
    \/ \E r \in Uploads, req \in PathRequests :
          LocalUpload(r, req.fileId, req.contentType, req.fileName, req.fileSize)
    \/ \E r \in Uploads, n \in PathChunkLengths : OnData(r, n)
    \/ \E r \in Uploads : OnEnd(r)
    \/ \E r \in Uploads : OnError(r)
    \/ \E filePath \in Locators : ServeRequest(filePath)

SpecPaths == InitPaths /\ [][NextPaths]_vars

----------------------------------------------------------------------------
(* The two-step protocol: a client asks for an upload target, then uploads  *)
(* to the local route or completes the upload it made to the provider       *)

\* the targets that were answered
Issued == {t \in Targets : tg[t].pc = "done" /\ tg[t].status = 200}

\* the fileId parameter of a PUT to the upload URL of a local target
FileIdParam(uploadURL) == pop(split(uploadURL, "/"))

NextTargets ==
    \/ \E t \in Targets : UploadUrlRequest(t)
    \/ \E t \in Targets : ProviderResolved(t)
    \/ \E t \in Targets : ProviderRejected(t)
    \/ \E r \in Uploads, t \in Issued :
          /\ ~tg[t].useObjectStorage
          /\ LocalUpload(r, FileIdParam(tg[t].uploadURL), "text/plain", PlainName, 3)
    \/ \E r \in Uploads, n \in LocalChunkLengths : OnData(r, n)
    \/ \E r \in Uploads : OnEnd(r)
    \/ \E r \in Uploads : OnError(r)
    \/ \E q \in Completions, t \in Issued :
          /\ tg[t].useObjectStorage
          /\ CompleteUploadRequest(q, tg[t].uploadURL, <<"r", ".", "pdf">>, 5, TRUE)
    \/ \E q \in Completions : AclResolved(q)
    \/ \E q \in Completions : AclRejected(q)

SpecTargets == Init /\ [][NextTargets]_vars

----------------------------------------------------------------------------
(* Remote completions alone, under upload URLs of one object that differ in *)
(* their signature or end in a slash, and of objects of two buckets         *)

UrlASigned1 == UrlA \o <<"?", "sig1">>
UrlASigned2 == UrlA \o <<"?", "sig2">>
UrlASlash == UrlA \o <<"/">>

KeyRequests ==
    {[fileUrl |-> u, fileName |-> <<"r", ".", "pdf">>, fileSize |-> 5,
      useObjectStorage |-> TRUE] : u \in {UrlA, UrlASigned1, UrlASigned2, UrlASlash, UrlB}}

NextKeys ==
    \/ \E q \in Completions, req \in KeyRequests :
          CompleteUploadRequest(q, req.fileUrl, req.fileName, req.fileSize,
                                req.useObjectStorage)
    \/ \E q \in Completions : AclResolved(q)
    \/ \E q \in Completions : AclRejected(q)

SpecKeys == Init /\ [][NextKeys]_vars

----------------------------------------------------------------------------
(* The ledger *)

Ids(metadata) == {metadata[i].id : i \in 1..Len(metadata)}
IndicesOf(metadata, id) == {i \in 1..Len(metadata) : metadata[i].id = id}

\* the requests that were answered with a success response
SucceededUploads == {r \in Uploads : up[r].status = 200}
SucceededCompletions == {q \in Completions : rc[q].status = 200}

\* completion q merges its record into the ledger in this step
Persists(q) == rc[q].pc = "acl" /\ rc'[q].status = 200

\* C1: in every reachable state of the ledger no two records have the same id,
\* also after a local upload is completed twice with the same fileId and when
\* a local id equals a remote derived id.
C1_LedgerIdsUnique ==
    \A i, j \in 1..Len(getAllFiles) :
        i # j => getAllFiles[i].id # getAllFiles[j].id

\* C2: when a remote completion is merged after an earlier successful remote
\* completion that derived the same id, the ledger holds exactly one record
\* with that id, and it has the name, size and path of the second completion.
C2_SecondRemoteCompletionReplaces ==
    [][\A q \in Completions :
          (/\ Persists(q)
           /\ \E q0 \in SucceededCompletions \ {q} :
                  rc[q0].fileInfo.id = rc'[q].fileInfo.id)
          => LET metadata == getMetadata(fs')
                 same == IndicesOf(metadata, rc'[q].fileInfo.id)
             IN  /\ Cardinality(same) = 1
                 /\ \A i \in same :
                       /\ metadata[i].name = rc[q].fileName
                       /\ metadata[i].size = rc[q].fileSize
                       /\ metadata[i].path = ObjectPath(rc[q].fileUrl)]_vars

\* C3: of two concurrent remote completions of the same derived id, the one
\* whose ledger write happens last leaves a ledger with exactly one record of
\* that id, which is its own record.  The two overlapped when the earlier
\* writer arrived after the later writer did.
C3_ConcurrentCompletionsLastWriterWins ==
    [][\A q \in Completions :
          (/\ Persists(q)
           /\ \E q0 \in SucceededCompletions \ {q} :
                  /\ rc[q0].fileInfo.id = rc'[q].fileInfo.id
                  /\ q0 > q)
          => LET metadata == getMetadata(fs')
                 same == IndicesOf(metadata, rc'[q].fileInfo.id)
             IN  /\ Cardinality(same) = 1
                 /\ \A i \in same : metadata[i] = rc'[q].fileInfo]_vars

\* C4: once all completions of a run in which requests overlapped have
\* finished, getAllFiles() holds a record for the id of every completion that
\* was answered with a success response, local or remote.
C4_NoLedgerUpdateLost ==
    (overlapped /\ InFlight = {})
        => /\ \A r \in SucceededUploads : up[r].fileInfo.id \in Ids(getAllFiles)
           /\ \A q \in SucceededCompletions : rc[q].fileInfo.id \in Ids(getAllFiles)

----------------------------------------------------------------------------
(* The streaming guard *)

\* upload r is answered with a success response in this step
Succeeds(r) == up[r].status = 0 /\ up'[r].status = 200

\* C5: when a local upload succeeds, the record appended to the ledger (and
\* returned in the response) has as size the number of bytes received on the
\* stream, the sum of the lengths of the accepted chunks, whatever size the
\* x-file-size header declared.
C5_RecordedSizeIsBytesReceived ==
    [][\A r \in Uploads :
          Succeeds(r)
          => LET metadata == getMetadata(fs')
             IN  /\ Len(metadata) >= 1
                 /\ metadata[Len(metadata)] = up'[r].fileInfo
                 /\ up'[r].fileInfo.id = up[r].fileId
                 /\ up'[r].fileInfo.size = up[r].totalSize
                 /\ up'[r].fileInfo.size = SumLen(up[r].chunks)]_vars

\* a successful upload whose declared size differs from the bytes received
C5_Witness ==
    \E r \in Uploads :
        /\ up[r].status = 200
        /\ up[r].fileSize # up[r].totalSize
        /\ up[r].fileInfo.size = up[r].totalSize
        /\ up[r].fileInfo \in {getAllFiles[i] : i \in 1..Len(getAllFiles)}

\* C6: the chunk that takes the running total of a local upload over maxSize
\* is answered with 413 and not accumulated; from then on no chunk is
\* accumulated, the answer stays 413, and no step of that upload (a later
\* 'data' or 'end' event) writes a file or a ledger record.
C6_OversizeUploadAborts ==
    [][\A r \in Uploads :
          /\ (up[r].totalSize <= maxSize /\ up'[r].totalSize > maxSize)
             => /\ up'[r].status = 413
                /\ up'[r].chunks = up[r].chunks
                /\ fs' = fs
          /\ up[r].totalSize > maxSize
             => /\ up'[r].status = 413
                /\ up'[r].chunks = up[r].chunks
                /\ up'[r].fileInfo = NoFile
                /\ (up'[r] # up[r] => fs' = fs)]_vars

\* an aborted upload that got another chunk and then the 'end' event
C6_Witness ==
    \E r \in Uploads :
        /\ up[r].totalSize > maxSize
        /\ up[r].status = 413
        /\ up[r].delivered >= 2
        /\ up[r].stream = "ended"

\* C7: the chunks held in the accumulation buffer of a local upload never
\* total more than maxSize.
C7_BufferWithinLimit ==
    \A r \in Uploads :
        /\ SumLen(up[r].chunks) <= maxSize
        /\ Len(up[r].chunks) <= up[r].delivered

\* a buffer that holds chunks and refused the chunk that passed the limit
C7_Witness ==
    \E r \in Uploads :
        /\ up[r].chunks # <<>>
        /\ up[r].totalSize > maxSize
        /\ SumLen(up[r].chunks) < up[r].totalSize

\* the request of upload r was rejected before any listener was attached:
\* nothing was read from the stream and nothing was kept of it
RejectedUnread(r) ==
    /\ ~up[r].flowing /\ ~up[r].listeners
    /\ up[r].delivered = 0 /\ up[r].totalSize = 0 /\ up[r].chunks = <<>>
    /\ up[r].stream = "open"
    /\ up[r].fileInfo = NoFile

\* C8 as stated: a local upload whose declared size is greater than maxSize is
\* rejected with 413 before any listener is attached, and creates no file and
\* no ledger record.
C8_DeclaredOversizeRejected ==
    /\ [](\A r \in Uploads :
            (up[r].started /\ up[r].fileSize > maxSize)
            => (up[r].status = 413 /\ RejectedUnread(r)))
    /\ [][\A r \in Uploads :
            (up'[r].started /\ up'[r].fileSize > maxSize /\ up'[r] # up[r])
            => fs' = fs]_vars

\* C8 amended: a local upload with an accepted content type whose declared
\* size is greater than maxSize is rejected with 413 before any listener is
\* attached, and creates no file and no ledger record.
C8_AcceptedTypeDeclaredOversizeRejected ==
    /\ [](\A r \in Uploads :
            (up[r].started /\ up[r].fileSize > maxSize
                /\ up[r].contentType \in allowedTypes)
            => (up[r].status = 413 /\ RejectedUnread(r)))
    /\ [][\A r \in Uploads :
            (up'[r].started /\ up'[r].fileSize > maxSize /\ up'[r] # up[r])
            => fs' = fs]_vars

C8_Witness ==
    \E r \in Uploads :
        /\ up[r].started /\ up[r].fileSize > maxSize
        /\ up[r].contentType \in allowedTypes
        /\ up[r].status = 413

\* C9: a local upload whose content type is not one of the four accepted
\* types is rejected with 400 before any byte of the stream is read, and
\* creates no file and no ledger record.
C9_InvalidTypeRejected ==
    /\ [](\A r \in Uploads :
            (up[r].started /\ up[r].contentType \notin
                {"application/pdf", "application/msword",
                 "application/vnd.openxmlformats-officedocument.wordprocessingml.document",
                 "text/plain"})
            => (up[r].status = 400 /\ RejectedUnread(r)))
    /\ [](\A r \in Uploads :
            (up[r].started /\ up[r].fileSize <= maxSize /\ up[r].contentType \in
                {"application/pdf", "application/msword",
                 "application/vnd.openxmlformats-officedocument.wordprocessingml.document",
                 "text/plain"})
            => up[r].flowing)
    /\ [][\A r \in Uploads :
            (up'[r].started /\ up'[r].contentType \notin
                {"application/pdf", "application/msword",
                 "application/vnd.openxmlformats-officedocument.wordprocessingml.document",
                 "text/plain"} /\ up'[r] # up[r])
            => fs' = fs]_vars

\* the default type of a request without a content-type header is rejected
C9_Witness ==
    \E r \in Uploads :
        /\ up[r].started
        /\ up[r].contentType = "application/octet-stream"
        /\ up[r].status = 400

\* C10: when the stream of a local upload ends with no byte received, the
\* request is answered with 400, no file is written and no ledger record is
\* created, and the upload takes no further step.
C10_EmptyUploadRejected ==
    [][\A r \in Uploads :
          /\ (up[r].stream = "open" /\ up'[r].stream = "ended"
                /\ up[r].listeners /\ up[r].totalSize = 0)
             => /\ up'[r].status = 400
                /\ up'[r].fileInfo = NoFile
                /\ fs' = fs
          /\ up[r].stream = "ended" => up'[r] = up[r]]_vars

C10_Witness ==
    \E r \in Uploads :
        /\ up[r].stream = "ended"
        /\ up[r].totalSize = 0
        /\ up[r].status = 400
        /\ \A i \in 1..Len(getAllFiles) : getAllFiles[i].id # up[r].fileId

----------------------------------------------------------------------------
(* The bytes that are saved *)

\* the file saveUploadedFile writes for upload r
FilePathOf(r) == join(uploadDir, up[r].fileId \o <<"-">> \o up[r].fileName)

\* C11: the bytes handed to saveLocalFile when a local upload ends cleanly
\* with 0 < total <= maxSize are the received chunks in their order of
\* arrival: every 'data' event within the limit appends its chunk to the end
\* of the list, no other step touches the list, and at the end the file holds
\* the concatenation of one chunk per 'data' event, none dropped, doubled or
\* moved.
C11_SavedBytesAreChunksInArrivalOrder ==
    [][\A r \in Uploads :
          /\ (/\ up[r].listeners
              /\ up'[r].delivered = up[r].delivered + 1
              /\ up'[r].totalSize <= maxSize
              /\ up'[r].status = 0)
                => up'[r].chunks
                      = Append(up[r].chunks, up'[r].totalSize - up[r].totalSize)
          /\ up'[r].delivered = up[r].delivered => up'[r].chunks = up[r].chunks
          /\ Succeeds(r) =>
                /\ Len(up[r].chunks) = up[r].delivered
                /\ SumLen(up[r].chunks) = up[r].totalSize
                /\ existsSync(fs', FilePathOf(r))
                /\ fs'[FilePathOf(r)] = Bytes(up[r].chunks)]_vars

\* two different chunks arrived, their total is exactly maxSize, and the file
\* holds them in that order
C11_Witness ==
    \E r \in Uploads :
        /\ up[r].status = 200
        /\ up[r].chunks = <<1, maxSize - 1>>
        /\ existsSync(fs, FilePathOf(r))
        /\ fs[FilePathOf(r)] = Bytes(<<1, maxSize - 1>>)

InsideUploadDir(path) ==
    Len(path) > Len(uploadDir) /\ SubSeq(path, 1, Len(uploadDir)) = uploadDir

\* the 'end' handler of upload r runs up to saveLocalFile in this step
SavesAtEnd(r) ==
    /\ up[r].stream = "open" /\ up'[r].stream = "ended"
    /\ up[r].listeners /\ ~up[r].streamEnded
    /\ BufferLength(BufferConcat(up[r].chunks)) > 0

\* C12: a local record is appended to the ledger only after the bytes were
\* written to the upload directory: the ledger changes only in a step where
\* an 'end' handler wrote its file, and when that write fails the files and
\* the ledger are as before, the upload has no record and is answered 500.
C12_RecordOnlyAfterWrite ==
    [][/\ getMetadata(fs') # getMetadata(fs) =>
            \E r \in Uploads :
                /\ SavesAtEnd(r)
                /\ ~writeThrows(FilePathOf(r))
                /\ existsSync(fs', FilePathOf(r))
                /\ up'[r].fileInfo = getMetadata(fs')[Len(getMetadata(fs'))]
       /\ \A r \in Uploads :
            SavesAtEnd(r) /\ writeThrows(FilePathOf(r)) =>
                /\ fs' = fs
                /\ up'[r].status = 500
                /\ up'[r].fileInfo = NoFile]_vars

\* after one upload was saved, the write of another failed: the ledger still
\* holds the one record
C12_Witness ==
    \E r, r0 \in Uploads :
        /\ up[r].stream = "ended" /\ up[r].status = 500
        /\ writeThrows(FilePathOf(r))
        /\ up[r0].status = 200
        /\ getAllFiles = <<up[r0].fileInfo>>

\* C13: when the stream of a local upload fails before its 'end' event, the
\* step writes no file and no record, the upload is answered with an error,
\* and nothing more happens for it: only a step that ends a stream changes
\* the files, and an upload whose stream failed has no record and takes no
\* further step.
C13_StreamErrorSavesNothing ==
    [][/\ \A r \in Uploads :
            /\ (up[r].stream = "open" /\ up'[r].stream = "errored") =>
                    /\ fs' = fs
                    /\ up'[r].fileInfo = NoFile
                    /\ up'[r].status >= 400
            /\ up[r].stream = "errored" => up'[r] = up[r]
       /\ fs' # fs => \E r \in Uploads :
                          up[r].stream = "open" /\ up'[r].stream = "ended"]_vars

\* the stream failed after a chunk was received; nothing was written for it
C13_Witness ==
    \E r \in Uploads :
        /\ up[r].stream = "errored" /\ up[r].status = 500
        /\ up[r].chunks # <<>>
        /\ ~existsSync(fs, FilePathOf(r))
        /\ getAllFiles = <<>>

----------------------------------------------------------------------------
(* Upload targets *)

LocalUploadPrefix ==
    <<"http:", "/", "/", "localhost:3001", "/", "api", "/", "files", "/",
      "local-upload", "/">>

\* C14: generateUploadURL never fails because of the provider.  Every answer
\* is a success; it names object storage exactly when object storage is
\* configured and the provider returned the URL, and then carries that URL;
\* when object storage is not configured or the provider threw, it carries a
\* local upload target with useObjectStorage = FALSE.  An upload sent to such
\* a target that ends cleanly has its record, under the id of the target, at
\* the end of the ledger.
C14_UploadTargetFallsBackToLocal ==
    [][/\ \A t \in Targets :
            tg'[t].pc = "done" =>
                /\ tg'[t].status = 200
                /\ tg'[t].useObjectStorage <=> (objectStorage /\ ~tg'[t].fellBack)
                /\ tg'[t].useObjectStorage =>
                      \E n \in 1..(nextUuid') :
                          tg'[t].uploadURL = getObjectEntityUploadURL(Uuid(n))
                /\ ~tg'[t].useObjectStorage =>
                      /\ startsWith(tg'[t].uploadURL, LocalUploadPrefix)
                      /\ Len(tg'[t].uploadURL) = Len(LocalUploadPrefix) + 1
       /\ \A r \in Uploads, t \in Targets :
            (/\ Succeeds(r)
             /\ tg[t].pc = "done" /\ ~tg[t].useObjectStorage
             /\ up[r].fileId = FileIdParam(tg[t].uploadURL)) =>
                /\ getMetadata(fs') # <<>>
                /\ getMetadata(fs')[Len(getMetadata(fs'))].id = up[r].fileId
                /\ getMetadata(fs')[Len(getMetadata(fs'))] = up'[r].fileInfo]_vars

\* the provider threw, the answer was a local target, and the upload sent to
\* it is in the ledger
C14_Witness ==
    \E t \in Targets, r \in Uploads :
        /\ objectStorage /\ tg[t].pc = "done" /\ tg[t].fellBack
        /\ ~tg[t].useObjectStorage
        /\ up[r].status = 200
        /\ up[r].fileId = FileIdParam(tg[t].uploadURL)
        /\ \E i \in 1..Len(getAllFiles) : getAllFiles[i].id = up[r].fileId

----------------------------------------------------------------------------
(* Paths *)

\* C15: for every client-supplied file name, names with path separators and
\* parent-directory segments included, the path saveUploadedFile writes to
\* resolves inside the upload directory: every file on disk other than the
\* application's own is below the upload directory, and so is the file of
\* every upload that was saved.
C15_WritesStayInUploadDir ==
    /\ \A p \in DOMAIN fs : p # PackageJson => InsideUploadDir(p)
    /\ \A r \in Uploads : up[r].status = 200 => InsideUploadDir(FilePathOf(r))

\* the file a locator resolves to
ResolvedLocator(filePath) ==
    join(uploadDir, replace(filePath, <<"/", "uploads", "/">>, <<>>))

\* C16: serveFile reads only files that resolve inside the upload directory:
\* the file it read for the last locator is below the upload directory, and
\* a locator that resolves outside it is answered not-found with no file read.
C16_ServeStaysInUploadDir ==
    /\ served.read # <<>> => InsideUploadDir(served.read)
    /\ (served.filePath # <<>> /\ ~InsideUploadDir(ResolvedLocator(served.filePath)))
          => (~served.found /\ served.read = <<>>)

----------------------------------------------------------------------------
(* Serving *)

\* C17: every record getAllFiles() returns right after a successful
\* completion, local or remote, is servable by its path, and for the record
\* of a local upload the content served is the bytes that were uploaded.
C17_CompletedRecordsAreServable ==
    [][(\E r \in Uploads : Succeeds(r)) \/ (\E q \in Completions : Persists(q)) =>
          \A i \in 1..Len(getMetadata(fs')) :
              LET record == getMetadata(fs')[i]
                  answer == serveFile(fs', record.path)
              IN  /\ answer.found
                  /\ \A r \in Uploads :
                        up'[r].fileInfo = record =>
                            answer.buffer = Bytes(BufferConcat(up'[r].chunks))]_vars

\* the records of the local backend
IsLocalRecord(record) == startsWith(record.path, <<"/", "uploads", "/">>)

\* C18: serving the path of a local record of the ledger answers with a
\* content type equal to the mimeType recorded in that record.
C18_ServedTypeIsRecordedType ==
    \A i \in 1..Len(getAllFiles) :
        (/\ IsLocalRecord(getAllFiles[i])
         /\ served.filePath = getAllFiles[i].path
         /\ served.found)
            => served.contentType = getAllFiles[i].mimeType

----------------------------------------------------------------------------
(* The order and the ids of the ledger *)

\* C19: after any sequence of local and remote completions, a remote
\* completion that replaces a record in place included, getAllFiles() is
\* ordered by upload time: uploadedAt does not decrease along the list.
C19_LedgerOrderedByUploadTime ==
    \A i, j \in 1..Len(getAllFiles) :
        i < j => getAllFiles[i].uploadedAt <= getAllFiles[j].uploadedAt

\* the segments of s that are not empty
RECURSIVE NonEmpty(_)
NonEmpty(s) ==
    IF s = <<>> THEN <<>>
    ELSE IF Head(s) = <<>> THEN NonEmpty(Tail(s))
         ELSE <<Head(s)>> \o NonEmpty(Tail(s))

\* the object key an upload URL refers to: the segments of its path, after
\* the scheme and the host and before the query
ObjectKeyOf(url) ==
    LET segments == NonEmpty(split(Head(split(url, "?")), "/"))
    IN  SubSeq(segments, 3, Len(segments))

\* C20: the id of a remote record is a function of the object key alone: two
\* remote completions get the same id exactly when their upload URLs refer
\* to the same object key, whatever else differs in the URLs.
C20_RemoteIdIsFunctionOfObjectKey ==
    \A q, q0 \in SucceededCompletions :
        (ObjectKeyOf(rc[q].fileUrl) = ObjectKeyOf(rc[q0].fileUrl))
            <=> (rc[q].fileInfo.id = rc[q0].fileInfo.id)

----------------------------------------------------------------------------
(* Upload targets and storage *)

\* the id an upload target was issued for: the last segment of its URL
TargetId(t) == FileIdParam(tg[t].uploadURL)

\* the upload of target t has only reached TargetIssued: no PUT for its id
\* and no completion for its URL has arrived
OnlyIssued(t) ==
    /\ t \in Issued
    /\ \A r \in Uploads : up[r].started => up[r].fileId # TargetId(t)
    /\ \A q \in Completions : rc[q].pc # "idle" => rc[q].fileUrl # tg[t].uploadURL

\* the files on disk whose name begins with the id
FilesOf(f, id) == {p \in DOMAIN f : p # <<>> /\ startsWith(p[Len(p)], id)}

\* C21: a step of an upload target request (its arrival, the provider's
\* answer, the provider's failure and the fallback) leaves every file and
\* the ledger as they were, and while an upload has only reached TargetIssued
\* there is no ledger record and no file under its id.
C21_TargetRequestLeavesStorageUnchanged ==
    [][/\ tg' # tg => fs' = fs
       /\ \A t \in Targets :
            OnlyIssued(t)' =>
                /\ TargetId(t)' \notin Ids(getMetadata(fs'))
                /\ FilesOf(fs', TargetId(t)') = {}]_vars

\* a local target issued after a fallback has only been issued while the
\* ledger already holds the record of another upload
C21_Witness ==
    /\ getAllFiles # <<>>
    /\ \E t \in Targets : OnlyIssued(t) /\ tg[t].fellBack

----------------------------------------------------------------------------
(* Crash and restart.  The process keeps no ledger in memory: every call of *)
(* getMetadata reads metadata.json again, so a restart changes nothing but  *)
(* the requests that were in flight, which are never answered.              *)

\* a file whose writeFileSync was cut short: the file was opened with
\* truncation and the process died before all of the text was written
Torn == [kind |-> "torn", chunks |-> <<>>, records |-> <<>>]

\* the requests in flight die with the process: their sockets close, their
\* handlers never run again and they get no answer
KillInFlight ==
    /\ up' = [r \in Uploads |->
                IF up[r].started /\ up[r].status = 0 /\ up[r].stream = "open"
                THEN [up[r] EXCEPT !.stream = "closed", !.flowing = FALSE,
                                   !.listeners = FALSE]
                ELSE up[r]]
    /\ rc' = [q \in Completions |->
                IF rc[q].pc = "acl" THEN [rc[q] EXCEPT !.pc = "done"] ELSE rc[q]]
    /\ tg' = [t \in Targets |->
                IF tg[t].pc = "provider" THEN [tg[t] EXCEPT !.pc = "done"] ELSE tg[t]]

\* the process dies between two handlers and is started again: the
\* constructor finds the upload directory
Crash ==
    /\ KillInFlight
    /\ UNCHANGED <<fs, now, nextUuid, objectStorage, overlapped, served, listed,
                   uploadContext, cl, aiVars>>

\* the process dies inside saveUploadedFile, in the end handler of upload r:
\* at "file" inside writeFileSync(filePath, buffer), at "ledger" inside the
\* writeFileSync of saveMetadata; then it is started again
CrashInSave(r, point) ==
    /\ up[r].flowing /\ up[r].stream = "open"
    /\ up[r].listeners /\ ~up[r].streamEnded
    /\ LET buffer == BufferConcat(up[r].chunks)
           filePath == join(uploadDir, up[r].fileId \o <<"-">> \o up[r].fileName)
       IN  /\ BufferLength(buffer) > 0
           /\ ~writeThrows(filePath)
           /\ fs' = IF point = "file"
                    THEN writeFileSync(fs, filePath, Torn)
                    ELSE writeFileSync(writeFileSync(fs, filePath, Bytes(buffer)),
                                       metadataFile, Torn)
    /\ KillInFlight
    /\ UNCHANGED <<now, nextUuid, objectStorage, overlapped, served, listed,
                   uploadContext, cl, aiVars>>

\* a metadata.json that JSON.parse rejects
Malformed == Bytes(<<7>>)

InitRestart ==
    /\ fs \in {<< >>, (metadataFile :> Malformed)}
    /\ now = 0
    /\ nextUuid = 0
    /\ objectStorage = FALSE
    /\ up = [r \in Uploads |-> NoUpload]
    /\ rc = [q \in Completions |-> NoCompletion]
    /\ overlapped = FALSE
    /\ tg = [t \in Targets |-> NoTarget]
    /\ served = NoResponse
    /\ listed = << >>
    /\ uploadContext = FALSE
    /\ cl = [t \in Targets |-> NoClientUpload]
    /\ apiKeys = << >>
    /\ selectedProvider = Null
    /\ aiResponse = NoAiResponse

RestartRequests ==
    {[fileId |-> <<"u1">>, contentType |-> "text/plain", fileName |-> PlainName,
      fileSize |-> 3],
     [fileId |-> <<"u2">>, contentType |-> "text/plain", fileName |-> PlainName,
      fileSize |-> 3]}

NextRestart ==
    \/ \E r \in Uploads, req \in RestartRequests :
          LocalUpload(r, req.fileId, req.contentType, req.fileName, req.fileSize)
    \/ \E r \in Uploads, n \in LocalChunkLengths : OnData(r, n)
    \/ \E r \in Uploads : OnEnd(r)
    \/ \E r \in Uploads : OnError(r)
    \/ Crash
    \/ \E r \in Uploads, point \in {"file", "ledger"} : CrashInSave(r, point)

SpecRestart == InitRestart /\ [][NextRestart]_vars

\* C22: every local upload that was answered with success has its record in
\* the ledger read from metadata.json in every later state, the states after a
\* crash and a restart included.
C22_AnsweredCompletionsSurviveCrash ==
    \A r \in Uploads :
        up[r].status = 200 =>
            \E i \in 1..Len(getAllFiles) : getAllFiles[i] = up[r].fileInfo

\* the ledger file on disk does not parse
LedgerMalformed(f) == existsSync(f, metadataFile) /\ JSONparseThrows(f[metadataFile])

----------------------------------------------------------------------------
(* Listing while uploads and completions are in flight *)

ListLocalRequests ==
    {[fileId |-> <<"k1">>, contentType |-> "text/plain", fileName |-> PlainName,
      fileSize |-> 3]}

ListRemoteRequests ==
    {[fileUrl |-> UrlA, fileName |-> <<"r", ".", "pdf">>, fileSize |-> 5,
      useObjectStorage |-> TRUE],
     [fileUrl |-> UrlC, fileName |-> <<"r", ".", "pdf">>, fileSize |-> 5,
      useObjectStorage |-> TRUE],
     [fileUrl |-> UrlA, fileName |-> <<"r", ".", "pdf">>, fileSize |-> 5,
      useObjectStorage |-> FALSE],
     [fileUrl |-> UrlA, fileName |-> <<"r", ".", "pdf">>, fileSize |-> maxSize + 1,
      useObjectStorage |-> FALSE],
     [fileUrl |-> UrlA, fileName |-> <<>>, fileSize |-> 5,
      useObjectStorage |-> FALSE]}

NextList ==
    \/ \E r \in Uploads, req \in ListLocalRequests :
          LocalUpload(r, req.fileId, req.contentType, req.fileName, req.fileSize)
    \/ \E r \in Uploads, n \in LocalChunkLengths : OnData(r, n)
    \/ \E r \in Uploads : OnEnd(r)
    \/ \E r \in Uploads : OnError(r)
    \/ \E q \in Completions, req \in ListRemoteRequests :
          CompleteUploadRequest(q, req.fileUrl, req.fileName, req.fileSize,
                                req.useObjectStorage)
    \/ \E q \in Completions : AclResolved(q)
    \/ \E q \in Completions : AclRejected(q)
    \/ ListRequest

SpecList == Init /\ [][NextList]_vars

\* the records that were returned in a success response
AnsweredRecords ==
    {up[r].fileInfo : r \in SucceededUploads}
        \cup {rc[q].fileInfo : q \in SucceededCompletions}

\* C24: the answer of a getAllFiles() call is the whole ledger as the
\* completions answered so far left it, whatever is in flight at that moment:
\* every record of the answer is the complete record of a completion that was
\* answered with success.
C24_ListIsConsistentSnapshot ==
    [][listed' # listed =>
          /\ listed' = getMetadata(fs)
          /\ fs' = fs
          /\ \A i \in 1..Len(listed') : listed'[i] \in AnsweredRecords]_vars

\* a listing taken while an upload had received bytes and a completion was
\* waiting for the access policy answered the record completed before them
C24_Witness ==
    /\ listed # <<>>
    /\ listed = getAllFiles
    /\ \E r \in Uploads : up[r].flowing /\ up[r].stream = "open" /\ up[r].chunks # <<>>
    /\ \E q \in Completions : rc[q].pc = "acl"

\* C25: a completion request with useObjectStorage = FALSE, or one that
\* arrives when object storage is not configured, is answered with an error
\* in the step it arrives (400 or 413 when the validation rejects it, else the
\* 500 of the error completeUpload throws) and leaves every file and the
\* ledger unchanged; a completion answered with success had useObjectStorage
\* = TRUE and object storage configured.
C25_RemotePathOnlyWhenChosen ==
    [][\A q \in Completions :
          /\ (/\ rc[q].pc = "idle" /\ rc'[q].pc # "idle"
              /\ ~(rc'[q].useObjectStorage /\ objectStorage)) =>
                  /\ rc'[q].pc = "done"
                  /\ rc'[q].status =
                        IF rc'[q].fileUrl = <<>> \/ rc'[q].fileName = <<>> THEN 400
                        ELSE IF rc'[q].fileSize > maxSize THEN 413 ELSE 500
                  /\ fs' = fs
          /\ rc'[q].status = 200 => rc'[q].useObjectStorage /\ objectStorage]_vars

\* with object storage configured and a record in the ledger, a valid
\* completion request with useObjectStorage = FALSE was answered 500
C25_Witness ==
    /\ objectStorage
    /\ getAllFiles # <<>>
    /\ \E q \in Completions :
          /\ rc[q].pc = "done" /\ rc[q].status = 500
          /\ ~rc[q].useObjectStorage

----------------------------------------------------------------------------
(* The answers of the local upload route: both kinds of content type, *)
(* declared and received sizes on both sides of maxSize, empty streams, *)
(* failed streams and a file name whose directory is missing          *)

StatusRequests ==
    {[fileId |-> <<"u1">>, contentType |-> t, fileName |-> PlainName, fileSize |-> n] :
        t \in {"text/plain", "image/png"}, n \in {1, maxSize + 1}}
    \cup {[fileId |-> <<"u1">>, contentType |-> "text/plain", fileName |-> MissingDirName,
           fileSize |-> 1]}

StatusChunkLengths == {1, maxSize}

NextStatus ==
    \/ \E r \in Uploads, req \in StatusRequests :
          LocalUpload(r, req.fileId, req.contentType, req.fileName, req.fileSize)
    \/ \E r \in Uploads, n \in StatusChunkLengths : OnData(r, n)
    \/ \E r \in Uploads : OnEnd(r)
    \/ \E r \in Uploads : OnError(r)

SpecStatus == Init /\ [][NextStatus]_vars

\* the stream of upload r ended and nothing was received
EndedEmpty(r) == up[r].stream = "ended" /\ up[r].totalSize = 0 /\ up[r].flowing

\* saveUploadedFile was called for upload r and threw
SaveFailed(r) ==
    /\ up[r].stream = "ended" /\ up[r].flowing
    /\ 0 < up[r].totalSize /\ up[r].totalSize <= maxSize
    /\ writeThrows(FilePathOf(r))

\* C26 as stated: an answered local upload has status 413 when its declared
\* or its received size exceeds maxSize, 400 when its content type is not
\* accepted or its stream ended empty, 500 when saving failed, and a success
\* carrying its record otherwise; every upload whose stream is over was
\* answered.
C26_StatusMatchesOutcome ==
    \A r \in Uploads :
        /\ up[r].stream # "open" => up[r].status # 0
        /\ up[r].status # 0 =>
            LET oversize == up[r].fileSize > maxSize \/ up[r].totalSize > maxSize
                rejected == up[r].contentType \notin allowedTypes \/ EndedEmpty(r)
            IN  /\ oversize => up[r].status = 413
                /\ rejected => up[r].status = 400
                /\ SaveFailed(r) => up[r].status = 500
                /\ ~(oversize \/ rejected \/ SaveFailed(r)) =>
                      /\ up[r].status = 200
                      /\ up[r].fileInfo \in {getAllFiles[i] : i \in 1..Len(getAllFiles)}

\* the status the route answers upload r with, by the order of its checks
ExpectedStatus(r) ==
    IF up[r].contentType \notin allowedTypes THEN 400
    ELSE IF up[r].fileSize > maxSize THEN 413
    ELSE IF up[r].totalSize > maxSize THEN 413
    ELSE IF up[r].stream = "errored" THEN 500
    ELSE IF up[r].totalSize = 0 THEN 400
    ELSE IF writeThrows(FilePathOf(r)) THEN 500
    ELSE 200

\* C26 amended: an answered local upload has the status of the first of these
\* that applies: 400 when its content type is not accepted, 413 when its
\* declared size exceeds maxSize, 413 when its received size exceeds maxSize,
\* 500 when its stream failed before the end, 400 when its stream ended
\* empty, 500 when saving failed, and else a success carrying the record that
\* is in the ledger; every upload whose stream is over was answered.
C26_StatusFollowsOrderOfChecks ==
    \A r \in Uploads :
        /\ up[r].stream # "open" => up[r].status # 0
        /\ up[r].status # 0 =>
            /\ up[r].status = ExpectedStatus(r)
            /\ up[r].status = 200 =>
                  /\ up[r].fileInfo = LocalFileInfo(up[r].fileId, up[r].chunks,
                                        up[r].fileName, up[r].contentType,
                                        up[r].fileInfo.uploadedAt)
                  /\ up[r].fileInfo \in {getAllFiles[i] : i \in 1..Len(getAllFiles)}

\* an upload with a content type that is not accepted and a declared size
\* above maxSize was answered 400, and an upload whose stream failed was
\* answered 500
C26_Witness ==
    \E r, r0 \in Uploads :
        /\ up[r].contentType \notin allowedTypes /\ up[r].fileSize > maxSize
        /\ up[r].status = 400
        /\ up[r0].stream = "errored" /\ up[r0].status = 500

----------------------------------------------------------------------------
(* The browser (DataIngestNode.tsx): each upload asks for a target, sends *)
(* the bytes to it and then runs handleUploadComplete; all uploads share   *)
(* window.__uploadContext                                                  *)

\* handleGetUploadParameters after its fetch: the answer of POST
\* /api/files/upload arrived, the flag is stored in window.__uploadContext
\* and the URL is handed to the uploader
ReceiveUploadParameters(t) ==
    /\ cl[t].pc = "idle"
    /\ t \in Issued
    /\ uploadContext' = tg[t].useObjectStorage
    /\ cl' = [cl EXCEPT ![t] = [cl[t] EXCEPT !.pc = "uploading"]]
    /\ UNCHANGED <<fs, now, nextUuid, objectStorage, up, rc, overlapped, tg, served, listed, aiVars>>

\* the uploader reports the upload of t as successful: the PUT to a local
\* target was answered with success, the PUT to the provider is not modelled
UploadSuccessful(t) ==
    \/ tg[t].useObjectStorage
    \/ \E r \in Uploads : up[r].fileId = TargetId(t) /\ up[r].status = 200

\* handleUploadComplete: with window.__uploadContext.useObjectStorage set it
\* posts /api/files/complete-upload, else it reads the record from the answer
\* of the PUT
HandleUploadComplete(t) ==
    /\ cl[t].pc = "uploading"
    /\ UploadSuccessful(t)
    /\ cl' = [cl EXCEPT ![t] = [pc |-> "done", posted |-> uploadContext]]
    /\ UNCHANGED <<fs, now, nextUuid, objectStorage, up, rc, overlapped, tg, served,
                   listed, uploadContext, aiVars>>

\* the body of the completion request of upload t
CompletionBody(t) ==
    [fileUrl |-> tg[t].uploadURL, fileName |-> <<"r", ".", "pdf">>, fileSize |-> 5,
     useObjectStorage |-> TRUE]

NextClient ==
    \/ \E t \in Targets : UploadUrlRequest(t)
    \/ \E t \in Targets : ProviderResolved(t)
    \/ \E t \in Targets : ProviderRejected(t)
    \/ \E t \in Targets : ReceiveUploadParameters(t)
    \/ \E r \in Uploads, t \in Targets :
          /\ cl[t].pc = "uploading" /\ ~tg[t].useObjectStorage
          /\ \A r0 \in Uploads : up[r0].fileId # TargetId(t)
          /\ LocalUpload(r, TargetId(t), "text/plain", PlainName, 3)
    \/ \E r \in Uploads :
          \* a PUT no upload target was requested for
          LocalUpload(r, <<"k1">>, "text/plain", PlainName, 3)
    \/ \E r \in Uploads, n \in LocalChunkLengths : OnData(r, n)
    \/ \E r \in Uploads : OnEnd(r)
    \/ \E r \in Uploads : OnError(r)
    \/ \E t \in Targets : HandleUploadComplete(t)
    \/ \E q \in Completions, t \in Targets :
          /\ cl[t].pc = "done" /\ cl[t].posted
          /\ \A q0 \in Completions : rc[q0].fileUrl # tg[t].uploadURL
          /\ LET body == CompletionBody(t)
             IN  CompleteUploadRequest(q, body.fileUrl, body.fileName, body.fileSize,
                                       body.useObjectStorage)
    \/ \E q \in Completions : AclResolved(q)
    \/ \E q \in Completions : AclRejected(q)

SpecClient == Init /\ [][NextClient]_vars

\* C27: every local record of the ledger carries an id that
\* generateUploadURL issued on the local path: a PUT for an id that was never
\* issued creates no record.
C27_LocalRecordsWereIssued ==
    \A i \in 1..Len(getAllFiles) :
        IsLocalRecord(getAllFiles[i]) =>
            \E t \in Issued :
                /\ ~tg[t].useObjectStorage
                /\ TargetId(t) = getAllFiles[i].id

\* C28: when the browser finishes an upload, it posts the completion to the
\* remote backend exactly when the target of that upload was issued by the
\* remote backend, whatever other uploads of the browser did in between.
C28_CompletionFollowsOwnTarget ==
    [][\A t \in Targets :
          (cl[t].pc = "uploading" /\ cl'[t].pc = "done") =>
              (cl'[t].posted <=> tg[t].useObjectStorage)]_vars

----------------------------------------------------------------------------
(* Frame of a completion *)

\* C29: a step that changes the ledger is the completion of one id X: every
\* record with another id is unchanged and keeps its index, no id leaves the
\* ledger, a local completion appends its record at the end, and a remote
\* merge replaces the record of X at its index when X is in the ledger and
\* appends at the end when it is not.
C29_CompletionChangesOnlyItsRecord ==
    [][LET old == getMetadata(fs)
           new == getMetadata(fs')
       IN  new # old =>
            /\ Ids(old) \subseteq Ids(new)
            /\ Len(new) >= Len(old)
            /\ \A r \in Uploads :
                  Succeeds(r) => new = Append(old, up'[r].fileInfo)
            /\ \A q \in Completions :
                  Persists(q) =>
                     LET X == rc'[q].fileInfo.id
                     IN  /\ \A i \in 1..Len(old) : old[i].id # X => new[i] = old[i]
                         /\ IF X \in Ids(old)
                            THEN /\ Len(new) = Len(old)
                                 /\ new[findIndex(old, X)] = rc'[q].fileInfo
                            ELSE new = Append(old, rc'[q].fileInfo)]_vars

----------------------------------------------------------------------------
(* Access policy *)

\* C30: the ledger changes only in the step in which trySetObjectEntityAclPolicy
\* resolved for a completion, and then holds that completion's record; when
\* it rejects, the completion is answered 500 and every file and the ledger
\* are left as they were.
C30_RecordOnlyAfterAclSet ==
    [][/\ \A q \in Completions :
            (rc[q].pc = "acl" /\ rc'[q] # rc[q] /\ rc'[q].status # 200) =>
                /\ rc'[q] = [rc[q] EXCEPT !.pc = "done", !.status = 500]
                /\ fs' = fs
       /\ getMetadata(fs') # getMetadata(fs) =>
            \E q \in Completions :
                /\ Persists(q)
                /\ rc'[q].fileInfo \in
                      {getMetadata(fs')[i] : i \in 1..Len(getMetadata(fs'))}]_vars

\* the access policy of a completion could not be set: it was answered 500
\* and the ledger holds only the record of the other completion
C30_Witness ==
    \E q, q0 \in Completions :
        /\ objectStorage /\ rc[q].useObjectStorage
        /\ rc[q].pc = "done" /\ rc[q].status = 500
        /\ rc[q0].status = 200
        /\ getAllFiles = <<rc[q0].fileInfo>>

----------------------------------------------------------------------------
(* Local uploads whose (id, name) pairs all differ, two of them with the    *)
(* same `${fileId}-${fileName}`, with bodies of different lengths           *)

CollideRequests ==
    {[fileId |-> <<"a">>, contentType |-> "text/plain",
      fileName |-> <<"b", "-", "c", ".", "txt">>, fileSize |-> 3],
     [fileId |-> <<"a", "-", "b">>, contentType |-> "text/plain",
      fileName |-> <<"c", ".", "txt">>, fileSize |-> 3],
     [fileId |-> <<"a">>, contentType |-> "text/plain",
      fileName |-> <<"d", ".", "txt">>, fileSize |-> 3]}

CollideChunkLengths == {3, 4}

NextCollide ==
    \/ \E r \in Uploads, req \in CollideRequests :
          \* no two requests carry the same id and name
          /\ \A r0 \in Uploads :
                up[r0].started =>
                    <<up[r0].fileId, up[r0].fileName>> # <<req.fileId, req.fileName>>
          /\ LocalUpload(r, req.fileId, req.contentType, req.fileName, req.fileSize)
    \/ \E r \in Uploads, n \in CollideChunkLengths : OnData(r, n)
    \/ \E r \in Uploads : OnEnd(r)
    \/ \E r \in Uploads : OnError(r)

SpecCollide == Init /\ [][NextCollide]_vars

\* C31: the file of every local record of the ledger holds the bytes of the
\* upload the record was made for, and as many bytes as the record's size:
\* uploads whose (id, name) pairs differ write different files, and no later
\* upload overwrites the file of an earlier record.
C31_RecordsKeepTheirBytes ==
    /\ \A r \in SucceededUploads :
          (\E i \in 1..Len(getAllFiles) : getAllFiles[i] = up[r].fileInfo) =>
              /\ existsSync(fs, ResolvedLocator(up[r].fileInfo.path))
              /\ fs[ResolvedLocator(up[r].fileInfo.path)] =
                    Bytes(BufferConcat(up[r].chunks))
              /\ BufferLength(BufferConcat(up[r].chunks)) = up[r].fileInfo.size
    /\ \A r, r0 \in SucceededUploads :
          <<up[r].fileId, up[r].fileName>> # <<up[r0].fileId, up[r0].fileName>>
              => FilePathOf(r) # FilePathOf(r0)

\* C32: no upload writes its bytes to metadata.json, and serveFile never reads
\* metadata.json, whatever the file id, the file name and the locator.
C32_LedgerFileOnlyThroughLedgerOperations ==
    [][/\ \A r \in Uploads : SavesAtEnd(r) => FilePathOf(r) # metadataFile
       /\ served'.read # metadataFile]_vars

----------------------------------------------------------------------------
(* Guards of concurrent uploads *)

\* C33: the guard state of an upload is its own: while its handlers are
\* attached its running total is the sum of its own chunks, which are the
\* chunks its stream delivered; a step of one upload (a chunk, the end, an
\* error, an abort) changes nothing of another upload; and the answer of an
\* upload is decided by its own request and stream alone.
C33_GuardsShareNoState ==
    /\ [](\A r \in Uploads :
            /\ (up[r].listeners /\ ~up[r].streamEnded) =>
                  /\ up[r].totalSize = SumLen(up[r].chunks)
                  /\ Len(up[r].chunks) = up[r].delivered
            /\ up[r].status # 0 =>
                  up[r].status = ExpectedStatus(r))
    /\ [][\A r, r0 \in Uploads :
            (r # r0 /\ up'[r] # up[r]) => up'[r0] = up[r0]]_vars

\* two uploads were in flight together: one was aborted for its size, the
\* other, with bytes of its own, was answered with success
C33_Witness ==
    \E r, r0 \in Uploads :
        /\ overlapped
        /\ up[r].status = 413 /\ up[r].totalSize > maxSize
        /\ up[r0].status = 200 /\ up[r0].chunks # <<>>
        /\ up[r0].totalSize = SumLen(up[r0].chunks)

----------------------------------------------------------------------------
(* Remote completions over declared names with and without an extension *)

MimeNames ==
    {<<"r", ".", "pdf">>, <<"s", ".", "TXT">>, <<"a", ".", "b", ".", "docx">>,
     <<"old", ".", "DOC">>, <<"p", ".", "png">>, <<"notes">>, <<"pdf">>}

MimeRequests ==
    {[fileUrl |-> UrlA, fileName |-> n, fileSize |-> 5, useObjectStorage |-> TRUE] :
        n \in MimeNames}

NextMime ==
    \/ \E q \in Completions, req \in MimeRequests :
          CompleteUploadRequest(q, req.fileUrl, req.fileName, req.fileSize,
                                req.useObjectStorage)
    \/ \E q \in Completions : AclResolved(q)
    \/ \E q \in Completions : AclRejected(q)

SpecMime == Init /\ [][NextMime]_vars

\* the extension of a file name: the text after its last ".", in lower case;
\* a name without "." has none
ExtensionOf(fileName) ==
    IF \E i \in 1..Len(fileName) : fileName[i] = "."
    THEN LowerCase(pop(split(fileName, ".")))
    ELSE <<>>

\* C34: the mimeType of the record of a remote completion is the document
\* type of the extension of its declared name, compared without regard to
\* case, and application/octet-stream for every other extension and for a
\* name with no extension.
C34_RemoteMimeTypeFromExtension ==
    \A q \in SucceededCompletions :
        rc[q].fileInfo.mimeType =
            CASE ExtensionOf(rc[q].fileName) = <<"pdf">> -> "application/pdf"
              [] ExtensionOf(rc[q].fileName) = <<"doc">> -> "application/msword"
              [] ExtensionOf(rc[q].fileName) = <<"docx">> ->
                   "application/vnd.openxmlformats-officedocument.wordprocessingml.document"
              [] ExtensionOf(rc[q].fileName) = <<"txt">> -> "text/plain"
              [] OTHER -> "application/octet-stream"

----------------------------------------------------------------------------
(* Responses of one local upload *)

\* C35: a local upload request is answered at most once: while a handler
\* that answers without looking at res.headersSent can still run (the
\* listeners are attached, streamEnded is false and the stream is open) no
\* response was sent, and once a response was sent no step sends another.
C35_AtMostOneResponse ==
    /\ [](\A r \in Uploads :
            (up[r].listeners /\ ~up[r].streamEnded /\ up[r].stream = "open")
                => up[r].status = 0)
    /\ [][\A r \in Uploads :
            up[r].status # 0 => up'[r].status = up[r].status]_vars

\* an upload was answered 413 in its data handler and its stream ended
\* afterwards: the answer is still the 413
C35_Witness ==
    \E r \in Uploads :
        /\ up[r].status = 413 /\ up[r].streamEnded
        /\ up[r].totalSize > maxSize
        /\ up[r].stream = "ended"

----------------------------------------------------------------------------
(* Remote completions with declared sizes on both sides of maxSize *)

SizeRequests ==
    {[fileUrl |-> u, fileName |-> <<"r", ".", "pdf">>, fileSize |-> n,
      useObjectStorage |-> TRUE] : u \in {UrlA, UrlC}, n \in {5, maxSize, maxSize + 1}}
    \cup {[fileUrl |-> UrlA, fileName |-> <<>>, fileSize |-> maxSize + 1,
           useObjectStorage |-> TRUE]}

NextSize ==
    \/ \E q \in Completions, req \in SizeRequests :
          CompleteUploadRequest(q, req.fileUrl, req.fileName, req.fileSize,
                                req.useObjectStorage)
    \/ \E q \in Completions : AclResolved(q)
    \/ \E q \in Completions : AclRejected(q)

SpecSize == Init /\ [][NextSize]_vars

\* C36 as stated: a remote completion request whose declared size is greater
\* than maxSize is answered 413 in the step it arrives, never waits for the
\* access policy and leaves the ledger unchanged; the record of every remote
\* completion has a size of at most maxSize.
C36_DeclaredOversizeCompletionRejected ==
    /\ [](\A q \in Completions :
            /\ (rc[q].pc # "idle" /\ rc[q].fileSize > maxSize) =>
                  (rc[q].pc = "done" /\ rc[q].status = 413)
            /\ rc[q].status = 200 => rc[q].fileInfo.size <= maxSize)
    /\ [][\A q \in Completions :
            (rc'[q] # rc[q] /\ rc'[q].fileSize > maxSize) => fs' = fs]_vars

\* C36 amended: a remote completion request that names a file URL and a file
\* name and whose declared size is greater than maxSize is answered 413 in
\* the step it arrives (without them the answer is 400); in both cases it
\* never waits for the access policy and leaves the ledger unchanged; the
\* record of every remote completion has a size of at most maxSize.
C36_ValidDeclaredOversizeCompletionRejected ==
    /\ [](\A q \in Completions :
            /\ (rc[q].pc # "idle" /\ rc[q].fileSize > maxSize) =>
                  /\ rc[q].pc = "done"
                  /\ rc[q].status =
                        IF rc[q].fileUrl = <<>> \/ rc[q].fileName = <<>>
                        THEN 400 ELSE 413
            /\ rc[q].status = 200 => rc[q].fileInfo.size <= maxSize
            /\ \A i \in 1..Len(getAllFiles) : getAllFiles[i].size <= maxSize)
    /\ [][\A q \in Completions :
            (rc'[q] # rc[q] /\ rc'[q].fileSize > maxSize) => fs' = fs]_vars

\* with object storage configured, a completion of exactly maxSize bytes is
\* in the ledger and a valid completion of one byte more was answered 413
C36_Witness ==
    \E q, q0 \in Completions :
        /\ objectStorage
        /\ rc[q].fileSize > maxSize /\ rc[q].fileName # <<>> /\ rc[q].status = 413
        /\ rc[q0].status = 200 /\ rc[q0].fileInfo.size = maxSize
        /\ getAllFiles = <<rc[q0].fileInfo>>

----------------------------------------------------------------------------
(* AIProviderService and the /api/ai-providers routes *)

\* type AIProvider
Providers == {"openai", "gemini", "anthropic"}

\* req.body.provider of a request; "" is a body without the field
BodyProviders == Providers \cup {""}

\* req.body.apiKey of a request; "" is a body without the field
BodyApiKeys == {"", "k1", "k2"}

\* Map.set(key, value)
MapSet(map, key, value) ==
    [k \in DOMAIN map \cup {key} |-> IF k = key THEN value ELSE map[k]]

\* saveApiKey, changed: the saved provider is selected every time
saveApiKey_AlwaysSelects(keys, selected, provider, apiKey) ==
    [apiKeys |-> MapSet(keys, provider, apiKey), selectedProvider |-> provider]

\* saveApiKey: the service's keys and selection after the call
saveApiKey(keys, selected, provider, apiKey) ==
    [apiKeys          |-> MapSet(keys, provider, apiKey),
     selectedProvider |-> IF selected = Null THEN provider ELSE selected]

\* setProvider, changed: the provider is selected whether or not it has a key
setProvider_NoKeyCheck(keys, selected, provider) ==
    [threw |-> FALSE, selectedProvider |-> provider]

\* setProvider: whether the call threw, and the selection after it
setProvider(keys, selected, provider) ==
    IF provider \in DOMAIN keys
    THEN [threw |-> FALSE, selectedProvider |-> provider]
    ELSE [threw |-> TRUE,  selectedProvider |-> selected]

\* getCurrentProvider
getCurrentProvider == selectedProvider

\* POST /api/ai-providers/save
SaveApiKeyRequest(provider, apiKey) ==
    /\ IF provider = "" \/ apiKey = ""
       THEN /\ aiResponse' = [route |-> "save", provider |-> provider, status |-> 400]
            /\ UNCHANGED <<apiKeys, selectedProvider>>
       ELSE LET after == saveApiKey(apiKeys, selectedProvider, provider, apiKey)
            IN  /\ apiKeys' = after.apiKeys
                /\ selectedProvider' = after.selectedProvider
                /\ aiResponse' = [route |-> "save", provider |-> provider, status |-> 200]
    /\ UNCHANGED <<fs, now, nextUuid, objectStorage, up, rc, overlapped, tg, served, listed, uploadContext, cl>>

\* POST /api/ai-providers/set-provider
SetProviderRequest(provider) ==
    /\ IF provider = ""
       THEN /\ aiResponse' = [route |-> "set-provider", provider |-> provider, status |-> 400]
            /\ UNCHANGED <<apiKeys, selectedProvider>>
       ELSE LET result == setProvider(apiKeys, selectedProvider, provider)
            IN  /\ selectedProvider' = result.selectedProvider
                /\ aiResponse' = [route |-> "set-provider", provider |-> provider,
                                  status |-> IF result.threw THEN 400 ELSE 200]
                /\ UNCHANGED apiKeys
    /\ UNCHANGED <<fs, now, nextUuid, objectStorage, up, rc, overlapped, tg, served, listed, uploadContext, cl>>

NextAI ==
    \/ \E provider \in BodyProviders, apiKey \in BodyApiKeys : SaveApiKeyRequest(provider, apiKey)
    \/ \E provider \in BodyProviders : SetProviderRequest(provider)

SpecAI == Init /\ [][NextAI]_vars

\* C37: in every reachable state the selected provider is null or a provider
\* with a stored API key, and a save request never changes a selection that
\* was already made.
C37_SelectionHasStoredKey ==
    /\ [](getCurrentProvider = Null \/ getCurrentProvider \in DOMAIN apiKeys)
    /\ [][(aiResponse'.route = "save" /\ selectedProvider # Null)
            => selectedProvider' = selectedProvider]_vars

\* a second provider's key was saved while another provider stayed selected
C37_Witness ==
    /\ aiResponse = [route |-> "save", provider |-> "gemini", status |-> 200]
    /\ selectedProvider = "openai"
    /\ {"openai", "gemini"} \subseteq DOMAIN apiKeys

\* C38: a set-provider request for a provider with no stored API key is
\* answered 400 and changes neither the selected provider nor the stored keys.
C38_SetProviderWithoutKeyFails ==
    [][(aiResponse'.route = "set-provider" /\ aiResponse'.provider # ""
          /\ aiResponse'.provider \notin DOMAIN apiKeys)
         => /\ aiResponse'.status = 400
            /\ selectedProvider' = selectedProvider
            /\ apiKeys' = apiKeys]_vars

\* set-provider for a provider without a key was refused while another
\* provider was selected
C38_Witness ==
    /\ aiResponse = [route |-> "set-provider", provider |-> "gemini", status |-> 400]
    /\ selectedProvider = "openai"
    /\ "gemini" \notin DOMAIN apiKeys

====
